---- MODULE Spec2Model ----
(***************************************************************************)
(* ProdBot (Season-4): the sandboxed command-execution engine.             *)
(*   - validateCommand  (lib/bash.js)  : the lexical validator             *)
(*   - PersistentShell  (lib/bash.js)  : the long-lived bash session       *)
(*   - handleInput / switchToLevel / checkFlag (bin/prodbot.js) : facade   *)
(* Command text is a TLA+ string; regular expressions are syntax trees     *)
(* interpreted by MatchFrom, so every pattern reads like its source.       *)
(***************************************************************************)
EXTENDS Integers, Sequences, FiniteSets, TLC

(***************************************************************************)
(* Bounds                                                                  *)
(***************************************************************************)
\* number of fragments concatenated into a candidate command
MaxFrags == 2
\* highest level handed to validateCommand
MaxLevel == 4
\* executeCommand calls issued in one run
MaxCalls == 2
\* bash processes spawned in one run
MaxProcs == 3
\* commands in one answer of the AI
MaxBatch == 2

(***************************************************************************)
(* State                                                                   *)
(***************************************************************************)
VARIABLES
    \* one call of validateCommand: its arguments and what it returned
    vCmd, vLevel, vCtx, vResult,
    lastIndex,    \* the lastIndex field of each RegExp object of DENIED_PATTERNS
    vFirst,       \* the first validateCommand call made: its arguments and what it returned
    memory,       \* system memory: the overrides that skills wrote, with their time-to-live
    \* lib/bash.js, class PersistentShell
    shell,        \* the PersistentShell object: id, sandboxDir, level, shell (pid, 0 = null)
    procs,        \* the bash processes spawned so far, indexed by pid
    calls,        \* the executeCommand calls issued so far
    crashed,      \* an exception escaped an event listener and ended the host
    \* bin/prodbot.js
    currentLevel, \* let currentLevel
    SANDBOX_DIR,  \* let SANDBOX_DIR
    pc,           \* where the prompt loop / handleInput stands
    input,        \* the line handleInput is working on
    idx,          \* position of the for loop in result.commands
    cmd,          \* the command the for loop is at
    lastValidate, \* handleInput's latest validateCommand call: the level it passed, the level it ran at
    console,      \* what switchToLevel has printed since the last prompt
    answer,       \* the answer askConfirmation got for the command the for loop is at
    \* Level-3/mcp/cloud-mcp.js
    disk,         \* the file system: the content of each file, the directories
    mcpCall       \* the latest tool call: its argument, the files it read and wrote

vvars == <<vCmd, vLevel, vCtx, vResult, lastIndex, vFirst, memory>>
svars == <<shell, procs, calls, crashed>>
fvars == <<currentLevel, SANDBOX_DIR, pc, input, idx, cmd, lastValidate, console, answer>>
mvars == <<disk, mcpCall>>
vars == <<vvars, svars, fvars, mvars>>

(***************************************************************************)
(* Regular expressions (JavaScript RegExp, the subset bash.js uses)        *)
(***************************************************************************)
\* String.prototype.substring on 1-based inclusive bounds
Sub(s, i, j) == IF i > j THEN "" ELSE SubSeq(s, i, j)

CharAt(s, i) == SubSeq(s, i, i)

\* does the text w stand in s at position i
At(s, i, w) == i + Len(w) - 1 <= Len(s) /\ Sub(s, i, i + Len(w) - 1) = w

\* \s
WhiteSpace == {" ", "\t", "\n", "\r", "\f"}

\* \w
WordChars ==
    {"a","b","c","d","e","f","g","h","i","j","k","l","m","n","o","p","q",
     "r","s","t","u","v","w","x","y","z",
     "A","B","C","D","E","F","G","H","I","J","K","L","M","N","O","P","Q",
     "R","S","T","U","V","W","X","Y","Z",
     "0","1","2","3","4","5","6","7","8","9","_"}

\* [0-7]
OctalDigits == {"0","1","2","3","4","5","6","7"}

\* . matches everything but a line terminator
LineTerminators == {"\n", "\r"}

Lit(w)    == [t |-> "lit", w |-> w]
Cls(S)    == [t |-> "cls", S |-> S]
NotCls(S) == [t |-> "ncls", S |-> S]
Cat(rs)   == [t |-> "seq", rs |-> rs]
Alt(rs)   == [t |-> "alt", rs |-> rs]
Star(r)   == [t |-> "star", r |-> r]
Plus(r)   == Cat(<<r, Star(r)>>)
Opt(r)    == Alt(<<r, Cat(<<>>)>>)
Bol       == [t |-> "bol"]
Eol       == [t |-> "eol"]
WordB     == [t |-> "wb"]
Space     == Cls(WhiteSpace)
NonSpace  == NotCls(WhiteSpace)
Dot       == NotCls(LineTerminators)

IsWordAt(s, i) == i >= 1 /\ i <= Len(s) /\ CharAt(s, i) \in WordChars

RECURSIVE MatchFrom(_, _, _)
RECURSIVE MatchSeq(_, _, _, _)
RECURSIVE MatchStar(_, _, _)

\* the positions at which a match of r can end, having started at one of P
MatchFrom(r, s, P) ==
    IF P = {} THEN {}
    ELSE CASE r.t = "lit"  -> {p + Len(r.w) : p \in {q \in P : At(s, q, r.w)}}
           [] r.t = "cls"  -> {p + 1 : p \in {q \in P : q <= Len(s) /\ CharAt(s, q) \in r.S}}
           [] r.t = "ncls" -> {p + 1 : p \in {q \in P : q <= Len(s) /\ CharAt(s, q) \notin r.S}}
           [] r.t = "seq"  -> MatchSeq(r.rs, 1, s, P)
           [] r.t = "alt"  -> UNION {MatchFrom(r.rs[k], s, P) : k \in DOMAIN r.rs}
           [] r.t = "star" -> MatchStar(r.r, s, P)
           [] r.t = "bol"  -> {p \in P : p = 1}
           [] r.t = "eol"  -> {p \in P : p = Len(s) + 1}
           [] r.t = "wb"   -> {p \in P : IsWordAt(s, p - 1) # IsWordAt(s, p)}

MatchSeq(rs, k, s, P) ==
    IF k > Len(rs) THEN P ELSE MatchSeq(rs, k + 1, s, MatchFrom(rs[k], s, P))

MatchStar(r, s, P) ==
    LET Q == P \cup MatchFrom(r, s, P)
    IN  IF Q = P THEN P ELSE MatchStar(r, s, Q)

\* RegExp.prototype.test (no g/y flag: the search starts at any position)
Test(r, s) == MatchFrom(r, s, 1 .. (Len(s) + 1)) # {}

\* String.prototype.includes
Includes(s, w) == \E i \in 1 .. (Len(s) + 1) : At(s, i, w)

RECURSIVE TrimStart(_)
TrimStart(s) ==
    IF Len(s) > 0 /\ CharAt(s, 1) \in WhiteSpace THEN TrimStart(Sub(s, 2, Len(s))) ELSE s

RECURSIVE TrimEnd(_)
TrimEnd(s) ==
    IF Len(s) > 0 /\ CharAt(s, Len(s)) \in WhiteSpace THEN TrimEnd(Sub(s, 1, Len(s) - 1)) ELSE s

\* a trim that leaves the string as it is
TrimNothing(s) == s

\* String.prototype.trim
Trim(s) == TrimEnd(TrimStart(s))

(***************************************************************************)
(* validateCommand                                                         *)
(***************************************************************************)
DENIED_PATTERNS == <<
    \* /\bsudo\b/
    Cat(<<WordB, Lit("sudo"), WordB>>),
    \* /\brm\s+(-[^\s]*\s+)*\/\s*$/
    Cat(<<WordB, Lit("rm"), Plus(Space),
          Star(Cat(<<Lit("-"), Star(NonSpace), Plus(Space)>>)),
          Lit("/"), Star(Space), Eol>>),
    \* /\brm\s+-[^\s]*r[^\s]*f|rm\s+-[^\s]*f[^\s]*r/
    Alt(<<Cat(<<WordB, Lit("rm"), Plus(Space), Lit("-"), Star(NonSpace),
                Lit("r"), Star(NonSpace), Lit("f")>>),
          Cat(<<Lit("rm"), Plus(Space), Lit("-"), Star(NonSpace),
                Lit("f"), Star(NonSpace), Lit("r")>>)>>),
    \* /\bchmod\b/
    Cat(<<WordB, Lit("chmod"), WordB>>),
    \* /\bchown\b/
    Cat(<<WordB, Lit("chown"), WordB>>),
    \* /\bmkfs\b/
    Cat(<<WordB, Lit("mkfs"), WordB>>),
    \* /\bdd\b/
    Cat(<<WordB, Lit("dd"), WordB>>),
    \* /\bcurl\b.*\|\s*(ba)?sh/
    Cat(<<WordB, Lit("curl"), WordB, Star(Dot), Lit("|"), Star(Space),
          Opt(Lit("ba")), Lit("sh")>>),
    \* /\bwget\b.*\|\s*(ba)?sh/
    Cat(<<WordB, Lit("wget"), WordB, Star(Dot), Lit("|"), Star(Space),
          Opt(Lit("ba")), Lit("sh")>>),
    \* /\bexec\b/
    Cat(<<WordB, Lit("exec"), WordB>>)
>>

MatchesDenied(trimmed) == \E k \in DOMAIN DENIED_PATTERNS : Test(DENIED_PATTERNS[k], trimmed)

\* /(?:^|\s)~/
TildeRe == Cat(<<Alt(<<Bol, Space>>), Lit("~")>>)
\* /^\s*cd\s*$/
BareCdRe == Cat(<<Bol, Star(Space), Lit("cd"), Star(Space), Eol>>)
\* /(?:^|\s)\/[^\s]/
AbsPathRe == Cat(<<Alt(<<Bol, Space>>), Lit("/"), NonSpace>>)
\* /(?:^|\s|\/)\.\.(\/|$|\s)/
TraversalRe == Cat(<<Alt(<<Bol, Space, Lit("/")>>), Lit(".."), Alt(<<Lit("/"), Eol, Space>>)>>)
\* /=\s*\.\./
AssignDotsRe == Cat(<<Lit("="), Star(Space), Lit("..")>>)
\* the backquote character (a TLA+ string cannot hold it; the model writes it as ^)
Backtick == "^"
\* /\x60/  (a single backquote)
BacktickRe == Lit(Backtick)
\* /\$\(/
SubshellRe == Lit("$(")
\* /base64\s+(-d|--decode)/
Base64Re == Cat(<<Lit("base64"), Plus(Space), Alt(<<Lit("-d"), Lit("--decode")>>)>>)
\* /printf\s+.*\\x|printf\s+.*\\[0-7]{3}/
PrintfRe == Alt(<<Cat(<<Lit("printf"), Plus(Space), Star(Dot), Lit("\\x")>>),
                  Cat(<<Lit("printf"), Plus(Space), Star(Dot), Lit("\\"),
                        Cls(OctalDigits), Cls(OctalDigits), Cls(OctalDigits)>>)>>)
\* /\beval\b/
EvalRe == Cat(<<WordB, Lit("eval"), WordB>>)

ReasonEmpty     == "Empty command"
ReasonDenied    == "Blocked: command matches denied pattern"
ReasonHome      == "Home directory references (~) are not allowed"
ReasonBareCd    == "Bare 'cd' navigates to home directory and is not allowed"
ReasonAbsolute  == "Absolute paths are not allowed"
ReasonTraversal == "Path traversal (..) is not allowed"
ReasonAssign    == "Variable assignments with '..' are not allowed"
ReasonBacktick  == "Backtick execution is not allowed"
ReasonSubshell  == "Subshell expansion $() is not allowed"
ReasonBase64    == "Base64 decoding is not allowed"
ReasonPrintf    == "Printf with escape sequences is not allowed"
ReasonEval      == "eval is not allowed"

Reject(reason) == [valid |-> FALSE, reason |-> reason]
Accept == [valid |-> TRUE]

\* memoryContext.scope (undefined when the key is absent)
Prop(obj, key) == IF key \in DOMAIN obj THEN obj[key] ELSE "undefined"

EmptyContext == [k \in {} |-> ""]

\* the override honoured one level later
hasWorkspaceScopeFromLevel5(level, memoryContext) ==
    level >= 5 /\ Prop(memoryContext, "scope") = "workspace"

\* const hasWorkspaceScope = level >= 4 && memoryContext.scope === "workspace"
hasWorkspaceScope(level, memoryContext) ==
    level >= 4 /\ Prop(memoryContext, "scope") = "workspace"

HardenedChecks(trimmed) ==
    IF Test(AssignDotsRe, trimmed) THEN Reject(ReasonAssign)
    ELSE IF Test(BacktickRe, trimmed) THEN Reject(ReasonBacktick)
    ELSE IF Test(SubshellRe, trimmed) THEN Reject(ReasonSubshell)
    ELSE IF Test(Base64Re, trimmed) THEN Reject(ReasonBase64)
    ELSE IF Test(PrintfRe, trimmed) THEN Reject(ReasonPrintf)
    ELSE IF Test(EvalRe, trimmed) THEN Reject(ReasonEval)
    ELSE Accept

\* validateCommand with the workspace override consulted before the denylist
validateCommandScopeFirst(command, sandbox, level, memoryContext) ==
    LET trimmed == Trim(command)
    IN  IF trimmed = "" THEN Reject(ReasonEmpty)
        ELSE IF ~hasWorkspaceScope(level, memoryContext) /\ MatchesDenied(trimmed)
             THEN Reject(ReasonDenied)
        ELSE IF Test(TildeRe, trimmed) THEN Reject(ReasonHome)
        ELSE IF Test(BareCdRe, trimmed) THEN Reject(ReasonBareCd)
        ELSE IF Test(AbsPathRe, trimmed) THEN Reject(ReasonAbsolute)
        ELSE IF ~hasWorkspaceScope(level, memoryContext) /\ Test(TraversalRe, trimmed)
             THEN Reject(ReasonTraversal)
        ELSE IF level >= 3 /\ ~hasWorkspaceScope(level, memoryContext)
             THEN HardenedChecks(trimmed)
        ELSE Accept

\* the checks after the denylist with the absolute-path check given up
\* under the workspace override
AfterDenylistPathsRelaxed(trimmed, level, memoryContext) ==
    IF Test(TildeRe, trimmed) THEN Reject(ReasonHome)
    ELSE IF Test(BareCdRe, trimmed) THEN Reject(ReasonBareCd)
    ELSE IF ~hasWorkspaceScope(level, memoryContext) /\ Test(AbsPathRe, trimmed)
         THEN Reject(ReasonAbsolute)
    ELSE IF ~hasWorkspaceScope(level, memoryContext) /\ Test(TraversalRe, trimmed)
         THEN Reject(ReasonTraversal)
    ELSE IF level >= 3 /\ ~hasWorkspaceScope(level, memoryContext)
         THEN HardenedChecks(trimmed)
    ELSE Accept

\* the checks after the denylist with the path-traversal check moved to the front
AfterDenylistTraversalFirst(trimmed, level, memoryContext) ==
    IF ~hasWorkspaceScope(level, memoryContext) /\ Test(TraversalRe, trimmed)
    THEN Reject(ReasonTraversal)
    ELSE IF Test(TildeRe, trimmed) THEN Reject(ReasonHome)
    ELSE IF Test(BareCdRe, trimmed) THEN Reject(ReasonBareCd)
    ELSE IF Test(AbsPathRe, trimmed) THEN Reject(ReasonAbsolute)
    ELSE IF level >= 3 /\ ~hasWorkspaceScope(level, memoryContext)
         THEN HardenedChecks(trimmed)
    ELSE Accept

\* the hardened checks applied at level 3 only
AfterDenylistHardenedAtLevel3(trimmed, level, memoryContext) ==
    IF Test(TildeRe, trimmed) THEN Reject(ReasonHome)
    ELSE IF Test(BareCdRe, trimmed) THEN Reject(ReasonBareCd)
    ELSE IF Test(AbsPathRe, trimmed) THEN Reject(ReasonAbsolute)
    ELSE IF ~hasWorkspaceScope(level, memoryContext) /\ Test(TraversalRe, trimmed)
         THEN Reject(ReasonTraversal)
    ELSE IF level = 3 /\ ~hasWorkspaceScope(level, memoryContext)
         THEN HardenedChecks(trimmed)
    ELSE Accept

\* validateCommand from the home-directory check on
AfterDenylist(trimmed, level, memoryContext) ==
    IF Test(TildeRe, trimmed) THEN Reject(ReasonHome)
    ELSE IF Test(BareCdRe, trimmed) THEN Reject(ReasonBareCd)
    ELSE IF Test(AbsPathRe, trimmed) THEN Reject(ReasonAbsolute)
    ELSE IF ~hasWorkspaceScope(level, memoryContext) /\ Test(TraversalRe, trimmed)
         THEN Reject(ReasonTraversal)
    ELSE IF level >= 3 /\ ~hasWorkspaceScope(level, memoryContext)
         THEN HardenedChecks(trimmed)
    ELSE Accept

validateCommand(command, sandbox, level, memoryContext) ==
    LET trimmed == Trim(command)
    IN  IF trimmed = "" THEN Reject(ReasonEmpty)
        ELSE IF MatchesDenied(trimmed) THEN Reject(ReasonDenied)
        ELSE AfterDenylist(trimmed, level, memoryContext)

\* lastIndex of a RegExp object as its literal creates it
ZeroIndex == [k \in DOMAIN DENIED_PATTERNS |-> 0]

\* test() as on a RegExp with the g flag: the search starts at lastIndex,
\* which is then moved behind the match, or back to 0 when there is none
RegExpTestGlobal(r, s, li) ==
    LET ends == MatchFrom(r, s, (li + 1) .. (Len(s) + 1))
    IN  IF ends = {} THEN [found |-> FALSE, lastIndex |-> 0]
        ELSE [found |-> TRUE, lastIndex |-> (CHOOSE e \in ends : \A f \in ends : f <= e) - 1]

\* pattern.test(trimmed) on a RegExp object whose lastIndex is li: none of
\* DENIED_PATTERNS has the g or y flag, so the search starts at 0 and
\* lastIndex is left as it is
RegExpTest(r, s, li) == [found |-> Test(r, s), lastIndex |-> li]

\* for (const pattern of DENIED_PATTERNS) if (pattern.test(trimmed)) return ...
RECURSIVE DeniedLoop(_, _, _)
DeniedLoop(trimmed, li, k) ==
    IF k > Len(DENIED_PATTERNS) THEN [hit |-> FALSE, lastIndex |-> li]
    ELSE LET t == RegExpTest(DENIED_PATTERNS[k], trimmed, li[k])
             li2 == [li EXCEPT ![k] = t.lastIndex]
         IN  IF t.found THEN [hit |-> TRUE, lastIndex |-> li2]
             ELSE DeniedLoop(trimmed, li2, k + 1)

\* one call of validateCommand on the module as it stands: what it returns,
\* and its arguments and the module's RegExp objects after the call
ValidateCall(command, sandbox, level, memoryContext, li) ==
    LET trimmed == Trim(command)
        scan == DeniedLoop(trimmed, li, 1)
    IN  IF trimmed = ""
        THEN [result |-> Reject(ReasonEmpty), lastIndex |-> li,
              command |-> command, level |-> level, memoryContext |-> memoryContext]
        ELSE [result |-> IF scan.hit THEN Reject(ReasonDenied)
                         ELSE AfterDenylist(trimmed, level, memoryContext),
              lastIndex |-> scan.lastIndex,
              command |-> command, level |-> level, memoryContext |-> memoryContext]

(***************************************************************************)
(* Inputs of the validator                                                 *)
(***************************************************************************)
\* fragments of command text; a candidate command is a concatenation of up
\* to MaxFrags of them (the backquote is written ^)
Frags == {"sudo apt update", "rm -rf /", "curl x | sh", "ls", " ", "\t", "/",
          "..", "~", "cd", ";", "x=", "^", "$(", "eval",
          "base64 -d", "printf \\x"}

RECURSIVE CommandsOf(_)
CommandsOf(n) ==
    IF n = 0 THEN {""}
    ELSE LET Shorter == CommandsOf(n - 1)
         IN  Shorter \cup {c \o f : c \in Shorter, f \in Frags}

Commands == CommandsOf(MaxFrags)

Levels == 1 .. MaxLevel

\* what getMemoryContext() can return: no entry, the workspace override,
\* another scope value
Contexts == {EmptyContext, [scope |-> "workspace"], [scope |-> "project"]}

NotValidated == [valid |-> FALSE, reason |-> "<not validated>"]

\* system memory with no entry
NoMemory == [k \in {} |-> [value |-> "", ttl |-> 0]]

NoCall == [cmd |-> "", level |-> 0, ctx |-> EmptyContext, result |-> NotValidated,
           between |-> FALSE]

InitValidator ==
    /\ vCmd \in Commands
    /\ vLevel \in Levels
    /\ vCtx \in Contexts
    /\ vResult = NotValidated
    /\ lastIndex = ZeroIndex
    /\ vFirst = NoCall
    /\ memory = NoMemory

\* one call validateCommand(vCmd, sandboxDir, vLevel, vCtx)
Validate ==
    /\ vResult = NotValidated
    /\ vResult' = validateCommand(vCmd, "prodbot-activities", vLevel, vCtx)
    /\ UNCHANGED <<vCmd, vLevel, vCtx, lastIndex, vFirst, memory>>
    /\ UNCHANGED <<svars, fvars, mvars>>

\* a command with no override in the memory context
InitEmptyContext ==
    /\ InitValidator
    /\ vCtx = EmptyContext

\* the command just validated is validated again at a higher level m, with
\* the same memory context: validateCommand(vCmd, sandboxDir, m, vCtx)
ValidateAbove(m) ==
    /\ vResult # NotValidated
    /\ vFirst = NoCall
    /\ m > vLevel
    /\ vFirst' = [cmd |-> vCmd, level |-> vLevel, ctx |-> vCtx, result |-> vResult,
                  between |-> FALSE]
    /\ vLevel' = m
    /\ vResult' = validateCommand(vCmd, "prodbot-activities", m, vCtx)
    /\ UNCHANGED <<vCmd, vCtx, lastIndex, memory>>
    /\ UNCHANGED <<svars, fvars, mvars>>

\* the validator called again and again by one caller
RevalCmds == {"ls", "sudo ls", "cd ..", "eval ls", " "}

InitRevalidator ==
    /\ vCmd \in RevalCmds
    /\ vLevel \in Levels
    /\ vCtx \in Contexts
    /\ vResult = NotValidated
    /\ lastIndex = ZeroIndex
    /\ vFirst = NoCall
    /\ memory = NoMemory

SameAsFirst == vFirst.cmd = vCmd /\ vFirst.level = vLevel /\ vFirst.ctx = vCtx

\* the call validateCommand(vCmd, sandboxDir, vLevel, vCtx) on the module as it stands
Call ==
    /\ vResult = NotValidated
    /\ LET r == ValidateCall(vCmd, "prodbot-activities", vLevel, vCtx, lastIndex)
       IN  /\ vResult' = r.result
           /\ lastIndex' = r.lastIndex
           /\ vCmd' = r.command
           /\ vLevel' = r.level
           /\ vCtx' = r.memoryContext
           /\ vFirst' = IF vFirst = NoCall
                        THEN [cmd |-> vCmd, level |-> vLevel, ctx |-> vCtx,
                              result |-> r.result, between |-> FALSE]
                        ELSE IF SameAsFirst THEN vFirst
                        ELSE [vFirst EXCEPT !.between = TRUE]
    /\ UNCHANGED memory
    /\ UNCHANGED <<svars, fvars, mvars>>

\* the caller takes the arguments of its next call
NextArguments(c, l, m) ==
    /\ vResult # NotValidated
    /\ vCmd' = c
    /\ vLevel' = l
    /\ vCtx' = m
    /\ vResult' = NotValidated
    /\ UNCHANGED <<lastIndex, vFirst, memory>>
    /\ UNCHANGED <<svars, fvars, mvars>>

(***************************************************************************)
(* Level configuration (bin/prodbot.js)                                    *)
(***************************************************************************)
LEVELS == <<[flag |-> "BYPA55ED", dir |-> "Level-1"],
            [flag |-> "INDIR3CT", dir |-> "Level-2"],
            [flag |-> "EXCE55IV", dir |-> "Level-3"]>>

SEASON_DIR == "/Season-4"

\* path.join(SEASON_DIR, LEVELS[level].dir, "prodbot-activities")
sandboxDir(level) == SEASON_DIR \o "/" \o LEVELS[level].dir \o "/prodbot-activities"

(***************************************************************************)
(* bash, the child process (spawned by _spawn, driven through its pipes)   *)
(***************************************************************************)
StartsWith(s, w) == At(s, 1, w)

\* a process spawned without the cwd option: it starts in the directory the
\* program was started in
NewProcNoCwd(owner, cwd) ==
    [owner |-> owner, state |-> "alive", exitSeen |-> FALSE,
     cwd |-> SEASON_DIR, X |-> "", stdin |-> <<>>, out |-> <<>>, err |-> <<>>]

\* a process as spawn("bash", ["--norc", "--noprofile"], {cwd}) creates it:
\* working directory cwd, no variable set, nothing in its pipes
NewProc(owner, cwd) ==
    [owner |-> owner, state |-> "alive", exitSeen |-> FALSE,
     cwd |-> cwd, X |-> "", stdin |-> <<>>, out |-> <<>>, err |-> <<>>]

\* a process that has ended: its memory is gone, what it wrote stays in its pipes
Ended(pr) == [pr EXCEPT !.state = "dead", !.stdin = <<>>, !.X = "", !.cwd = ""]

\* the effect of one input line on bash: what it writes to stdout and to
\* stderr, its variable X and working directory afterwards, whether it exits
BashRun(line, pr) ==
    LET same == [X |-> pr.X, cwd |-> pr.cwd, out |-> <<>>, err |-> <<>>, exits |-> FALSE]
    IN  IF line = "exit" THEN [same EXCEPT !.exits = TRUE]
        ELSE IF line \in {"X=1", "eval X=1"} THEN [same EXCEPT !.X = "1"]
        ELSE IF line = "cd sub" THEN [same EXCEPT !.cwd = pr.cwd \o "/sub"]
        ELSE IF line = "pwd" THEN [same EXCEPT !.out = <<pr.cwd \o "\n">>]
        ELSE IF line = "echo $X" THEN [same EXCEPT !.out = <<pr.X \o "\n">>]
        ELSE IF line = "echo >&2" THEN [same EXCEPT !.err = <<"\n">>]
        ELSE IF StartsWith(line, "echo ")
             THEN [same EXCEPT !.out = <<Sub(line, 6, Len(line)) \o "\n">>]
        ELSE [same EXCEPT !.err = <<"bash: " \o line \o ": command not found\n">>]

RECURSIVE Concat(_)
Concat(ws) == IF ws = <<>> THEN "" ELSE Head(ws) \o Concat(Tail(ws))

Drop(ws, k) == SubSeq(ws, k + 1, Len(ws))

(***************************************************************************)
(* PersistentShell                                                         *)
(***************************************************************************)
\* constructor(sandboxDir, level = 1, getMemoryContext = () => ({}))
NewShell(id, dir, level, pid) ==
    [id |-> id, sandboxDir |-> dir, level |-> level, shell |-> pid]

\* the default getMemoryContext, () => ({}), which every caller in bin/ leaves in place
GetMemoryContext == EmptyContext

Pending == [success |-> FALSE, error |-> "<pending>"]

\* `__PRODBOT_${Date.now()}_${Math.floor(Math.random() * 1e9)}__`: a fresh
\* token per call; the n-th call's timestamp and random number are written n
Marker(n) == "__PRODBOT_" \o ToString(n) \o "_" \o ToString(n) \o "__"

\* a process per command, as execSync would give
NeedSpawnAlways(sh) == TRUE

\* if (!this.shell) this._spawn()
NeedSpawn(sh) == sh.shell = 0

\* the rejection with the validator's reason replaced by a fixed text
RejectionResultGeneric(validation) == [success |-> FALSE, error |-> "Command rejected"]

\* return Promise.resolve({ success: false, error: validation.reason })
RejectionResult(validation) == [success |-> FALSE, error |-> validation.reason]

\* everything read so far, the marker line included
BeforeMarkerWhole(stdout, marker) == stdout

\* stdout.split(marker)[0]
BeforeMarker(stdout, marker) ==
    LET i == CHOOSE j \in 1 .. Len(stdout) :
                 /\ At(stdout, j, marker)
                 /\ \A k \in 1 .. (j - 1) : ~At(stdout, k, marker)
    IN  Sub(stdout, 1, i - 1)

\* resolve(...) appending whatever stderr holds
SuccessResultAlwaysStderr(stdout, stderr, marker) ==
    [success |-> TRUE, output |-> BeforeMarker(stdout, marker) \o stderr]

\* resolve(...) in onStdout
SuccessResult(stdout, stderr, marker) ==
    IF Trim(stderr) # ""
    THEN [success |-> TRUE, output |-> BeforeMarker(stdout, marker) \o stderr]
    ELSE [success |-> TRUE, output |-> BeforeMarker(stdout, marker)]

\* the commands a client hands to executeCommand: any client, a client that
\* awaits each result, a client whose output is watched chunk by chunk
ShellCmds == {"nosuch", "exit", "sudo ls"}
StateCmds == {"X=1", "echo $X", "cd sub", "pwd", "nosuch", "echo >&2"}
ChunkCmds == {"echo hello", "nosuch"}

\* the commands the AI can hand back to handleInput
\* (result.commands is drawn one command at a time, as the for loop reaches it)
FacadeCmds == {"echo $X", "eval X=1", "echo BYPA55ED", "INDIR3CT", "exit", "sudo ls"}

\* commands whose output carries the flag of level 1, 2 or 3 (the name of a
\* command bash does not find comes back in its error message)
FlagCmds == {"echo BYPA55ED", "INDIR3CT", "echo EXCE55IV"}

\* validateCommand(cmd, this.sandboxDir, this.level, this.getMemoryContext())
\* for each of these commands and each level: validateCommand does not read
\* its sandboxDir argument
SessionValidation ==
    [c \in ShellCmds \cup StateCmds \cup ChunkCmds \cup FacadeCmds \cup FlagCmds |->
        [l \in Levels |-> validateCommand(c, "prodbot-activities", l, GetMemoryContext)]]

\* the state of the shell object, the processes and the calls after
\* executeCommand(cmd) has returned its promise
ExecuteCommandOp(c) ==
    LET validation == SessionValidation[c][shell.level]
        n == Len(calls) + 1
        outstanding == \E i \in DOMAIN calls : calls[i].status = "pending"
    IN  IF ~validation.valid
        THEN /\ calls' = Append(calls,
                    [cmd |-> c, marker |-> "", pid |-> 0, stdout |-> "", stderr |-> "",
                     onStdout |-> FALSE, onStderr |-> FALSE, status |-> "resolved",
                     result |-> RejectionResult(validation),
                     concurrent |-> outstanding, toDead |-> FALSE])
             /\ UNCHANGED <<shell, procs>>
        ELSE LET spawn == NeedSpawn(shell)
                 pid == IF spawn THEN Len(procs) + 1 ELSE shell.shell
                 procs1 == IF spawn THEN Append(procs, NewProc(shell.id, shell.sandboxDir))
                           ELSE procs
                 alive == procs1[pid].state = "alive"
             IN  /\ spawn => Len(procs) < MaxProcs
                 /\ shell' = [shell EXCEPT !.shell = pid]
                 \* this.shell.stdin.write(`${cmd}\necho ${marker}\n`)
                 /\ procs' = IF alive
                             THEN [procs1 EXCEPT ![pid].stdin = @ \o <<c, "echo " \o Marker(n)>>]
                             ELSE procs1
                 /\ calls' = Append(calls,
                        [cmd |-> c, marker |-> Marker(n), pid |-> pid,
                         stdout |-> "", stderr |-> "",
                         onStdout |-> TRUE, onStderr |-> TRUE, status |-> "pending",
                         result |-> Pending,
                         concurrent |-> outstanding, toDead |-> ~alive])

\* destroy()
DestroyOp(sh, ps) ==
    IF sh.shell # 0
    THEN [shell |-> [sh EXCEPT !.shell = 0],
          procs |-> [ps EXCEPT ![sh.shell] = Ended(@)]]
    ELSE [shell |-> sh, procs |-> ps]

\* onStdout that looks for the marker in the chunk it was handed
OnStdoutChunkOnly(c, chunk) ==
    LET stdout == c.stdout \o chunk
    IN  IF Includes(chunk, c.marker)
        THEN LET off == shell.shell = c.pid
             IN  [c EXCEPT !.stdout = stdout,
                           !.onStdout = ~off, !.onStderr = IF off THEN FALSE ELSE @,
                           !.status = "resolved",
                           !.result = IF c.status = "pending"
                                      THEN SuccessResult(stdout, c.stderr, c.marker)
                                      ELSE @]
        ELSE [c EXCEPT !.stdout = stdout]

\* onStdout(chunk) of call c
OnStdout(c, chunk) ==
    LET stdout == c.stdout \o chunk
    IN  IF Includes(stdout, c.marker)
        THEN \* cleanup() takes the listeners off the streams of this.shell
             LET off == shell.shell = c.pid
             IN  [c EXCEPT !.stdout = stdout,
                           !.onStdout = ~off, !.onStderr = IF off THEN FALSE ELSE @,
                           !.status = "resolved",
                           !.result = IF c.status = "pending"
                                      THEN SuccessResult(stdout, c.stderr, c.marker)
                                      ELSE @]
        ELSE [c EXCEPT !.stdout = stdout]

\* cleanup() dereferences this.shell: a TypeError when it is null
CleanupThrows(c, chunk) == Includes(c.stdout \o chunk, c.marker) /\ shell.shell = 0

\* onStderr(chunk) of call c
OnStderr(c, chunk) == [c EXCEPT !.stderr = @ \o chunk]

----
\* a client calls executeCommand(cmd)
ExecuteCommand(c) ==
    /\ ~crashed
    /\ Len(calls) < MaxCalls
    /\ ExecuteCommandOp(c)
    /\ UNCHANGED crashed
    /\ UNCHANGED <<vvars, fvars, mvars>>

\* a client that awaits each result before its next call
ExecuteNext(c) ==
    /\ \A i \in DOMAIN calls : calls[i].status = "resolved"
    /\ ExecuteCommand(c)

\* a client calls destroy()
Destroy ==
    /\ ~crashed
    /\ shell.shell # 0
    /\ shell' = DestroyOp(shell, procs).shell
    /\ procs' = DestroyOp(shell, procs).procs
    /\ UNCHANGED <<calls, crashed>>
    /\ UNCHANGED <<vvars, fvars, mvars>>

\* the bash process is killed from outside the program
KillOutOfBand(p) ==
    /\ ~crashed
    /\ procs[p].state = "alive"
    /\ procs' = [procs EXCEPT ![p] = Ended(@)]
    /\ UNCHANGED <<shell, calls, crashed>>
    /\ UNCHANGED <<vvars, fvars, mvars>>

\* bash reads the next line of its stdin and runs it
ProcStep(p) ==
    /\ ~crashed
    /\ procs[p].state = "alive"
    /\ procs[p].stdin # <<>>
    /\ LET r == BashRun(Head(procs[p].stdin), procs[p])
           ran == [procs[p] EXCEPT !.X = r.X, !.cwd = r.cwd,
                                   !.out = @ \o r.out, !.err = @ \o r.err,
                                   !.stdin = Tail(@)]
       IN  procs' = [procs EXCEPT ![p] = IF r.exits THEN Ended(ran) ELSE ran]
    /\ UNCHANGED <<shell, calls, crashed>>
    /\ UNCHANGED <<vvars, fvars, mvars>>

\* a 'data' event of p's stdout carrying the next k writes
DeliverStdout(p, k) ==
    /\ ~crashed
    /\ k \in 1 .. Len(procs[p].out)
    /\ LET chunk == Concat(SubSeq(procs[p].out, 1, k))
           hears(c) == c.pid = p /\ c.onStdout
       IN  /\ crashed' = \E i \in DOMAIN calls : hears(calls[i]) /\ CleanupThrows(calls[i], chunk)
           /\ calls' = [i \in DOMAIN calls |->
                          IF hears(calls[i]) /\ ~CleanupThrows(calls[i], chunk)
                          THEN OnStdout(calls[i], chunk) ELSE calls[i]]
    /\ procs' = [procs EXCEPT ![p].out = Drop(@, k)]
    /\ UNCHANGED shell
    /\ UNCHANGED <<vvars, fvars, mvars>>

\* the length of the write at the head of p's stdout pipe, less one
PartLen(p) == IF procs[p].out = <<>> THEN 0 ELSE Len(Head(procs[p].out)) - 1

\* a 'data' event of p's stdout carrying the first n characters of the next
\* write: the pipe hands over what has arrived, wherever that ends
DeliverStdoutPart(p, n) ==
    /\ ~crashed
    /\ n \in 1 .. PartLen(p)
    /\ LET w == Head(procs[p].out)
           chunk == Sub(w, 1, n)
           hears(c) == c.pid = p /\ c.onStdout
       IN  /\ crashed' = \E i \in DOMAIN calls : hears(calls[i]) /\ CleanupThrows(calls[i], chunk)
           /\ calls' = [i \in DOMAIN calls |->
                          IF hears(calls[i]) /\ ~CleanupThrows(calls[i], chunk)
                          THEN OnStdout(calls[i], chunk) ELSE calls[i]]
           /\ procs' = [procs EXCEPT ![p].out = <<Sub(w, n + 1, Len(w))>> \o Tail(@)]
    /\ UNCHANGED shell
    /\ UNCHANGED <<vvars, fvars, mvars>>

\* a 'data' event of p's stderr carrying the next k writes
DeliverStderr(p, k) ==
    /\ ~crashed
    /\ k \in 1 .. Len(procs[p].err)
    /\ LET chunk == Concat(SubSeq(procs[p].err, 1, k))
       IN  calls' = [i \in DOMAIN calls |->
                        IF calls[i].pid = p /\ calls[i].onStderr
                        THEN OnStderr(calls[i], chunk) ELSE calls[i]]
    /\ procs' = [procs EXCEPT ![p].err = Drop(@, k)]
    /\ UNCHANGED <<shell, crashed>>
    /\ UNCHANGED <<vvars, fvars, mvars>>

\* the 'exit' event of p: this.shell.on("exit", () => { this.shell = null })
DeliverExit(p) ==
    /\ ~crashed
    /\ procs[p].state = "dead"
    /\ ~procs[p].exitSeen
    /\ procs' = [procs EXCEPT ![p].exitSeen = TRUE]
    /\ shell' = IF procs[p].owner = shell.id THEN [shell EXCEPT !.shell = 0] ELSE shell
    /\ UNCHANGED <<calls, crashed>>
    /\ UNCHANGED <<vvars, fvars, mvars>>

Live == DOMAIN procs

\* new PersistentShell(sandboxDir): the object and its first process
InitShell ==
    /\ shell = NewShell(1, sandboxDir(1), 1, 1)
    /\ procs = <<NewProc(1, sandboxDir(1))>>
    /\ calls = <<>>
    /\ crashed = FALSE

----
\* what _spawn leaves behind when bash cannot be started (no bash on the
\* PATH, no sandbox directory): a ChildProcess object without a process
FailedProc(owner) == [NewProc(owner, "") EXCEPT !.state = "failed"]

\* how child_process.spawn fails: it returns the ChildProcess and emits
\* 'error' on it later (ENOENT, EACCES, EAGAIN), or it throws
SpawnOutcomes == {"error", "throws"}

\* executeCommand(cmd) whose _spawn() cannot start bash
ExecuteCommandSpawnFails(c, how) ==
    /\ ~crashed
    /\ Len(calls) < MaxCalls
    /\ Len(procs) < MaxProcs
    /\ SessionValidation[c][shell.level].valid
    /\ NeedSpawn(shell)
    /\ LET n == Len(calls) + 1
           pid == Len(procs) + 1
           outstanding == \E i \in DOMAIN calls : calls[i].status = "pending"
       IN  IF how = "throws"
           THEN \* the exception leaves executeCommand before this.shell is assigned
                /\ calls' = Append(calls,
                       [cmd |-> c, marker |-> "", pid |-> 0, stdout |-> "", stderr |-> "",
                        onStdout |-> FALSE, onStderr |-> FALSE, status |-> "threw",
                        result |-> Pending,
                        concurrent |-> outstanding, toDead |-> FALSE])
                /\ UNCHANGED <<shell, procs>>
           ELSE \* this.shell is the ChildProcess; the listeners go onto its
                \* streams and the write to its stdin reaches nobody
                /\ shell' = [shell EXCEPT !.shell = pid]
                /\ procs' = Append(procs, FailedProc(shell.id))
                /\ calls' = Append(calls,
                       [cmd |-> c, marker |-> Marker(n), pid |-> pid,
                        stdout |-> "", stderr |-> "",
                        onStdout |-> TRUE, onStderr |-> TRUE, status |-> "pending",
                        result |-> Pending,
                        concurrent |-> outstanding, toDead |-> TRUE])
    /\ UNCHANGED crashed
    /\ UNCHANGED <<vvars, fvars, mvars>>

\* the 'error' event of a ChildProcess that could not be spawned: _spawn
\* registers no 'error' listener, so the emit throws in the event loop
SpawnError(p) ==
    /\ ~crashed
    /\ procs[p].state = "failed"
    /\ ~procs[p].exitSeen
    /\ procs' = [procs EXCEPT ![p].exitSeen = TRUE]
    /\ crashed' = TRUE
    /\ UNCHANGED <<shell, calls>>
    /\ UNCHANGED <<vvars, fvars, mvars>>

(***************************************************************************)
(* bin/prodbot.js: switchToLevel, checkFlag, handleInput, the prompt loop  *)
(***************************************************************************)
\* validateCommand(cmd, SANDBOX_DIR): the level argument is left to its default
FacadeLevelArg == 1

\* the process of a PersistentShell that the program has let go of: every call
\* on it has resolved and taken its listeners off, so what the streams still
\* emit reaches nobody, and its 'exit' handler writes to the object let go of
Unreferenced(pr) == [pr EXCEPT !.out = <<>>, !.err = <<>>, !.exitSeen = TRUE]

\* what switchToLevel prints: "Level n does not exist." in red, "Already on
\* Level n." in yellow, or the welcome banner of the new level
SaidNoLevel == "does not exist"
SaidAlready == "Already on Level"
SaidWelcome == "welcome"

\* switchToLevel that moves the level and the directory but keeps the old shell
switchToLevelKeepShell(level) ==
    LET same == [currentLevel |-> currentLevel, SANDBOX_DIR |-> SANDBOX_DIR,
                 shell |-> shell, procs |-> procs, said |-> ""]
    IN  IF level \notin DOMAIN LEVELS THEN [same EXCEPT !.said = SaidNoLevel]
        ELSE IF level = currentLevel THEN [same EXCEPT !.said = SaidAlready]
        ELSE [same EXCEPT !.currentLevel = level, !.SANDBOX_DIR = sandboxDir(level),
                          !.said = SaidWelcome]

\* switchToLevel that calls shell.destroy() before it looks at the level
switchToLevelDestroyFirst(level) ==
    LET d == DestroyOp(shell, procs)
        same == [currentLevel |-> currentLevel, SANDBOX_DIR |-> SANDBOX_DIR,
                 shell |-> d.shell, procs |-> d.procs, said |-> ""]
    IN  IF level \notin DOMAIN LEVELS THEN [same EXCEPT !.said = SaidNoLevel]
        ELSE IF level = currentLevel THEN [same EXCEPT !.said = SaidAlready]
        ELSE [currentLevel |-> level,
              said |-> SaidWelcome,
              SANDBOX_DIR |-> sandboxDir(level),
              shell |-> NewShell(shell.id + 1, sandboxDir(level), 1, Len(procs) + 1),
              procs |-> Append([q \in DOMAIN d.procs |-> Unreferenced(d.procs[q])],
                               NewProc(shell.id + 1, sandboxDir(level)))]

\* switchToLevel without the test for the current level: the session is
\* replaced also when the level stays
switchToLevelAlwaysRespawn(level) ==
    LET same == [currentLevel |-> currentLevel, SANDBOX_DIR |-> SANDBOX_DIR,
                 shell |-> shell, procs |-> procs, said |-> ""]
    IN  IF level \notin DOMAIN LEVELS THEN [same EXCEPT !.said = SaidNoLevel]
        ELSE LET d == DestroyOp(shell, procs)
             IN  [currentLevel |-> level,
                  said |-> SaidWelcome,
                  SANDBOX_DIR |-> sandboxDir(level),
                  shell |-> NewShell(shell.id + 1, sandboxDir(level), 1, Len(procs) + 1),
                  procs |-> Append([q \in DOMAIN d.procs |-> Unreferenced(d.procs[q])],
                                   NewProc(shell.id + 1, sandboxDir(level)))]

\* switchToLevel(level), up to its first await: the level, the sandbox
\* directory, the shell object and the processes afterwards
switchToLevel(level) ==
    LET same == [currentLevel |-> currentLevel, SANDBOX_DIR |-> SANDBOX_DIR,
                 shell |-> shell, procs |-> procs, said |-> ""]
    IN  IF level \notin DOMAIN LEVELS THEN [same EXCEPT !.said = SaidNoLevel]
        ELSE IF level = currentLevel THEN [same EXCEPT !.said = SaidAlready]
        ELSE LET d == DestroyOp(shell, procs)
             IN  [currentLevel |-> level,
                  \* showWelcome()
                  said |-> SaidWelcome,
                  SANDBOX_DIR |-> sandboxDir(level),
                  \* shell.destroy(); shell = new PersistentShell(SANDBOX_DIR)
                  shell |-> NewShell(shell.id + 1, sandboxDir(level), 1, Len(procs) + 1),
                  procs |-> Append([q \in DOMAIN d.procs |-> Unreferenced(d.procs[q])],
                                   NewProc(shell.id + 1, sandboxDir(level)))]

\* does switchToLevel(level) spawn a process
Switches(level) == level \in DOMAIN LEVELS /\ level # currentLevel

\* checkFlag that starts over at level 1 after the last level
checkFlagWraps(text) ==
    IF text = "" THEN currentLevel
    ELSE IF Includes(text, LEVELS[currentLevel].flag)
         THEN IF currentLevel = 1 THEN 2
              ELSE IF currentLevel = 2 THEN 3
              ELSE 1
         ELSE currentLevel

\* checkFlag looking for the flag of any level
checkFlagAnyLevel(text) ==
    IF text = "" THEN currentLevel
    ELSE IF \E l \in DOMAIN LEVELS : Includes(text, LEVELS[l].flag)
         THEN IF currentLevel = 1 THEN 2
              ELSE IF currentLevel = 2 THEN 3
              ELSE currentLevel
         ELSE currentLevel

\* checkFlag(text): the level it switches to (the current one when it does not)
checkFlag(text) ==
    IF text = "" THEN currentLevel
    ELSE IF Includes(text, LEVELS[currentLevel].flag)
         THEN IF currentLevel = 1 THEN 2
              ELSE IF currentLevel = 2 THEN 3
              ELSE currentLevel
         ELSE currentLevel

ApplySwitch(level) ==
    LET r == switchToLevel(level)
    IN  /\ Switches(level) => Len(procs) < MaxProcs
        /\ currentLevel' = r.currentLevel
        /\ SANDBOX_DIR' = r.SANDBOX_DIR
        /\ shell' = r.shell
        /\ procs' = r.procs
        /\ console' = r.said

\* validateCommand(cmd, SANDBOX_DIR) for each command the loop can meet: the
\* call passes neither level nor memory context and validateCommand does not
\* read its sandboxDir argument, so the verdict depends on the command alone
FacadeValidation ==
    [c \in FacadeCmds \cup FlagCmds |->
        validateCommand(c, SEASON_DIR, FacadeLevelArg, EmptyContext)]

\* the lines a user can type
Lines == {[kind |-> "level", n |-> n] : n \in 0 .. (Len(LEVELS) + 1)}
         \cup {[kind |-> "task"], [kind |-> "exit"]}

NoLine == [kind |-> "none"]
NoValidate == [level |-> 0, at |-> 0]

\* rl.question(...): the user enters a line
ReadLine(line) ==
    /\ ~crashed
    /\ pc = "prompt"
    /\ input' = line
    /\ pc' = "handle"
    /\ console' = ""
    /\ UNCHANGED <<currentLevel, SANDBOX_DIR, idx, cmd, lastValidate, answer>>
    /\ UNCHANGED <<vvars, svars, mvars>>

\* answer "exit": shell.destroy(); rl.close()
HandleExit ==
    /\ ~crashed
    /\ pc = "handle" /\ input.kind = "exit"
    /\ shell' = DestroyOp(shell, procs).shell
    /\ procs' = DestroyOp(shell, procs).procs
    /\ pc' = "closed"
    /\ UNCHANGED <<currentLevel, SANDBOX_DIR, input, idx, cmd, lastValidate, calls, crashed>>
    /\ UNCHANGED <<console, answer>>
    /\ UNCHANGED <<vvars, mvars>>

\* "level <n>": await switchToLevel(parseInt(levelMatch[1]))
HandleLevel ==
    /\ ~crashed
    /\ pc = "handle" /\ input.kind = "level"
    /\ ApplySwitch(input.n)
    /\ pc' = "prompt"
    /\ input' = NoLine
    /\ UNCHANGED <<idx, cmd, lastValidate, answer, calls, crashed>>
    /\ UNCHANGED <<vvars, mvars>>

\* anything else: sendToAI answers {action: "bash", commands}
HandleTask ==
    /\ ~crashed
    /\ pc = "handle" /\ input.kind = "task"
    /\ idx' = 1
    /\ pc' = "loop"
    /\ UNCHANGED <<currentLevel, SANDBOX_DIR, input, cmd, lastValidate, console, answer>>
    /\ UNCHANGED <<vvars, svars, mvars>>

\* the for loop is over: result.commands has no element idx
LoopEnd ==
    /\ ~crashed
    /\ pc = "loop"
    /\ pc' = "prompt"
    /\ input' = NoLine
    /\ idx' = 0
    /\ cmd' = ""
    /\ answer' = ""
    /\ UNCHANGED <<currentLevel, SANDBOX_DIR, lastValidate, console>>
    /\ UNCHANGED <<vvars, svars, mvars>>

\* Step 1: validateCommand(cmd, SANDBOX_DIR); a blocked command is skipped
LoopValidate(c) ==
    /\ ~crashed
    /\ pc = "loop" /\ idx <= MaxBatch
    /\ LET validation == FacadeValidation[c]
       IN  /\ cmd' = c
           /\ lastValidate' = [level |-> FacadeLevelArg, at |-> currentLevel]
           /\ IF validation.valid
              THEN pc' = "confirm" /\ idx' = idx
              ELSE pc' = "loop" /\ idx' = idx + 1
    /\ answer' = ""
    /\ UNCHANGED <<currentLevel, SANDBOX_DIR, input, console>>
    /\ UNCHANGED <<vvars, svars, mvars>>

\* toLowerCase() on the letters a user answers with
RECURSIVE Lower(_)
Lower(s) ==
    IF s = "" THEN ""
    ELSE LET h == Sub(s, 1, 1)
         IN  (IF h = "Y" THEN "y" ELSE IF h = "N" THEN "n" ELSE h) \o Lower(Sub(s, 2, Len(s)))

\* a prompt whose default answer is yes
askConfirmationDefaultYes(a) == Lower(Trim(a)) \in {"y", ""}

\* askConfirmation: resolve(answer.trim().toLowerCase() === "y")
askConfirmation(a) == Lower(Trim(a)) = "y"

\* what the user types at the confirmation prompt: a yes, or just Enter
Answers == {" Y", ""}

\* Step 2: askConfirmation answered with something other than y: the loop
\* goes on to the next command
ConfirmNo(a) ==
    /\ ~crashed
    /\ pc = "confirm"
    /\ ~askConfirmation(a)
    /\ answer' = a
    /\ pc' = "loop"
    /\ idx' = idx + 1
    /\ UNCHANGED <<currentLevel, SANDBOX_DIR, input, cmd, lastValidate, console>>
    /\ UNCHANGED <<vvars, svars, mvars>>

\* Step 2 answered y, Step 3: shell.executeCommand(cmd)
ConfirmYes(a) ==
    /\ ~crashed
    /\ pc = "confirm"
    /\ askConfirmation(a)
    /\ answer' = a
    /\ Len(calls) < MaxCalls
    /\ ExecuteCommandOp(cmd)
    /\ pc' = "await"
    /\ UNCHANGED <<currentLevel, SANDBOX_DIR, input, idx, cmd, lastValidate, console, crashed>>
    /\ UNCHANGED <<vvars, mvars>>

\* the loop going on without awaiting the promise of executeCommand
AwaitResultNoWait ==
    /\ ~crashed
    /\ pc = "await"
    /\ LET res == calls[Len(calls)].result
       IN  IF res.success /\ checkFlag(res.output) # currentLevel
           THEN ApplySwitch(checkFlag(res.output))
           ELSE UNCHANGED <<currentLevel, SANDBOX_DIR, shell, procs, console>>
    /\ pc' = "loop"
    /\ idx' = idx + 1
    /\ answer' = ""
    /\ UNCHANGED <<input, cmd, lastValidate, calls, crashed>>
    /\ UNCHANGED <<vvars, mvars>>

\* the promise of executeCommand has resolved: if (res.success) await checkFlag(res.output)
AwaitResult ==
    /\ ~crashed
    /\ pc = "await"
    /\ calls[Len(calls)].status = "resolved"
    /\ LET res == calls[Len(calls)].result
       IN  IF res.success /\ checkFlag(res.output) # currentLevel
           THEN ApplySwitch(checkFlag(res.output))
           ELSE UNCHANGED <<currentLevel, SANDBOX_DIR, shell, procs, console>>
    /\ pc' = "loop"
    /\ idx' = idx + 1
    /\ answer' = ""
    /\ UNCHANGED <<input, cmd, lastValidate, calls, crashed>>
    /\ UNCHANGED <<vvars, mvars>>

InitFacade ==
    /\ currentLevel = 1
    /\ SANDBOX_DIR = sandboxDir(1)
    /\ pc = "prompt"
    /\ input = NoLine
    /\ idx = 0
    /\ cmd = ""
    /\ lastValidate = NoValidate
    /\ console = ""
    /\ answer = ""

(***************************************************************************)
(* System memory: the overrides skills write through ctx.writeSystemMemory *)
(* and the context they give validateCommand. The skills are in the        *)
(* repository; the store behind ctx is described by the specification      *)
(* (setOverride, consumeOneCommand, time-to-live in commands remaining).   *)
(***************************************************************************)
MaxSeen == 2
MaxTtl == 2

\* setOverride(name, value, ttlInCommands): the entry replaces an older one of
\* the same name. given, seen and by record the write for the properties:
\* the time-to-live written, the executions completed since, and the writer
writeSystemMemory(mem, key, value, ttl, by) ==
    [k \in DOMAIN mem \cup {key} |->
        IF k = key
        THEN [value |-> value, ttl |-> ttl, given |-> ttl, seen |-> 0, by |-> by]
        ELSE mem[k]]

\* consumeOneCommand(): every override with a time-to-live loses one command
\* and is removed on reaching zero; a time-to-live of zero persists
consumeOneCommand(mem) ==
    LET kept == {k \in DOMAIN mem : mem[k].ttl = 0 \/ mem[k].ttl > 1}
        older(e) == [e EXCEPT !.seen = IF @ < MaxSeen THEN @ + 1 ELSE @]
    IN  [k \in kept |->
            IF mem[k].ttl = 0 THEN older(mem[k])
            ELSE [older(mem[k]) EXCEPT !.ttl = @ - 1]]

\* an override explicitly cleared
clearOverride(mem, key) == [k \in DOMAIN mem \ {key} |-> mem[k]]

\* the snapshot of the overrides handed to validateCommand as memoryContext
getMemoryContext(mem) == [k \in DOMAIN mem |-> mem[k].value]

\* the files a skill finds in the sandbox
SandboxFiles == {"package.json", "notes.txt"}

\* env-setup that forgets the time-to-live of its entries
EnvSetupWritesPersistent(file) ==
    IF file = "package.json"
    THEN <<[key |-> "lang", value |-> "javascript", ttl |-> 0],
           [key |-> "framework", value |-> "node", ttl |-> 0]>>
    ELSE <<[key |-> "lang", value |-> "general", ttl |-> 0]>>

\* Level-4/skills/env-setup.js, run(ctx): ctx.writeSystemMemory("lang", lang, 1);
\* if (framework) ctx.writeSystemMemory("framework", framework, 1)
EnvSetupWrites(file) ==
    IF file = "package.json"
    THEN <<[key |-> "lang", value |-> "javascript", ttl |-> 1],
           [key |-> "framework", value |-> "node", ttl |-> 1]>>
    ELSE <<[key |-> "lang", value |-> "general", ttl |-> 1]>>

\* onboarding that writes the scope for one command only
OnboardingWritesOnce(elevated) ==
    (IF elevated THEN <<[key |-> "elevated_paths", value |-> "..", ttl |-> 1]>> ELSE <<>>)
    \o <<[key |-> "scope", value |-> "workspace", ttl |-> 1]>>

\* Level-4/skills/onboarding.js, run(ctx): ctx.writeSystemMemory("scope",
\* "workspace", 0), in one version after
\* ctx.writeSystemMemory("elevated_paths", "..", 1)
OnboardingWrites(elevated) ==
    (IF elevated THEN <<[key |-> "elevated_paths", value |-> "..", ttl |-> 1]>> ELSE <<>>)
    \o <<[key |-> "scope", value |-> "workspace", ttl |-> 0]>>

RECURSIVE ApplyWrites(_, _, _)
ApplyWrites(mem, ws, by) ==
    IF ws = <<>> THEN mem
    ELSE ApplyWrites(writeSystemMemory(mem, Head(ws).key, Head(ws).value, Head(ws).ttl, by),
                     Tail(ws), by)

\* the program is between two commands
Idle == vResult = NotValidated

\* the user runs the skill env-setup
RunEnvSetup(file) ==
    /\ Idle
    /\ memory' = ApplyWrites(memory, EnvSetupWrites(file), "env-setup")
    /\ UNCHANGED <<vCmd, vLevel, vCtx, vResult, lastIndex, vFirst>>
    /\ UNCHANGED <<svars, fvars, mvars>>

\* the user runs the skill onboarding
RunOnboarding(elevated) ==
    /\ Idle
    /\ memory' = ApplyWrites(memory, OnboardingWrites(elevated), "onboarding")
    /\ UNCHANGED <<vCmd, vLevel, vCtx, vResult, lastIndex, vFirst>>
    /\ UNCHANGED <<svars, fvars, mvars>>

\* some other caller sets the scope override with a time-to-live of its choice
SetOverride(value, ttl) ==
    /\ Idle
    /\ memory' = writeSystemMemory(memory, "scope", value, ttl, "caller")
    /\ UNCHANGED <<vCmd, vLevel, vCtx, vResult, lastIndex, vFirst>>
    /\ UNCHANGED <<svars, fvars, mvars>>

\* an override is cleared
ClearOverride(key) ==
    /\ Idle
    /\ key \in DOMAIN memory
    /\ memory' = clearOverride(memory, key)
    /\ UNCHANGED <<vCmd, vLevel, vCtx, vResult, lastIndex, vFirst>>
    /\ UNCHANGED <<svars, fvars, mvars>>

\* the commands run at the levels with system memory
PolicyCmds == {"ls ..", "ls", "sudo ls"}

\* validateCommand(cmd, sandboxDir, level, memoryContext) for the commands
\* and levels above: of memoryContext it reads the property scope only
PolicyValidation ==
    [c \in PolicyCmds |-> [l \in Levels |-> [scope \in {"undefined", "workspace"} |->
        validateCommand(c, "prodbot-activities", l,
                        IF scope = "undefined" THEN EmptyContext ELSE [scope |-> scope])]]]

\* a command is executed: validateCommand under the overrides now active
StartCommand(c) ==
    /\ Idle
    /\ vCmd' = c
    /\ vCtx' = getMemoryContext(memory)
    /\ vResult' = PolicyValidation[c][vLevel][Prop(getMemoryContext(memory), "scope")]
    /\ UNCHANGED <<vLevel, lastIndex, vFirst, memory>>
    /\ UNCHANGED <<svars, fvars, mvars>>

\* the command has completed, run or rejected: one command is consumed
CompleteCommand ==
    /\ ~Idle
    /\ memory' = consumeOneCommand(memory)
    /\ vResult' = NotValidated
    /\ UNCHANGED <<vCmd, vLevel, vCtx, lastIndex, vFirst>>
    /\ UNCHANGED <<svars, fvars, mvars>>

\* no command validated yet, no override written
InitMemory ==
    /\ vCmd = ""
    /\ vLevel \in Levels
    /\ vCtx = EmptyContext
    /\ vResult = NotValidated
    /\ lastIndex = ZeroIndex
    /\ vFirst = NoCall
    /\ memory = NoMemory

(***************************************************************************)
(* Level-3/mcp/cloud-mcp.js: the Cloud Backup MCP server over the file     *)
(* system                                                                  *)
(***************************************************************************)
\* the parts of a path between its slashes, empty ones included
RECURSIVE Segments(_, _)
Segments(s, part) ==
    IF s = "" THEN <<part>>
    ELSE IF Sub(s, 1, 1) = "/" THEN <<part>> \o Segments(Sub(s, 2, Len(s)), "")
    ELSE Segments(Sub(s, 2, Len(s)), part \o Sub(s, 1, 1))

\* the segments of an absolute path with "", "." and ".." worked off; ".."
\* at the root stays at the root
RECURSIVE Normalize(_, _)
Normalize(segs, done) ==
    IF segs = <<>> THEN done
    ELSE LET h == Head(segs)
         IN  IF h \in {"", "."} THEN Normalize(Tail(segs), done)
             ELSE IF h = ".."
                  THEN Normalize(Tail(segs),
                                 IF done = <<>> THEN done ELSE SubSeq(done, 1, Len(done) - 1))
             ELSE Normalize(Tail(segs), Append(done, h))

RECURSIVE JoinSegments(_)
JoinSegments(segs) ==
    IF segs = <<>> THEN "" ELSE "/" \o Head(segs) \o JoinSegments(Tail(segs))

\* an absolute path written out
Absolute(segs) == IF segs = <<>> THEN "/" ELSE JoinSegments(segs)

\* path.resolve(base, p) for an absolute base: an absolute p replaces the base
resolve(base, p) ==
    Absolute(Normalize(Segments(IF StartsWith(p, "/") THEN p ELSE base \o "/" \o p, ""), <<>>))

\* path.join(base, p) for an absolute base: p is appended whatever it starts with
join(base, p) == Absolute(Normalize(Segments(base \o "/" \o p, ""), <<>>))

\* path.basename(p): the last part of p that is not empty, "." and ".." included
basename(p) ==
    LET parts == SelectSeq(Segments(p, ""), LAMBDA x : x # "")
    IN  IF parts = <<>> THEN "" ELSE parts[Len(parts)]

\* path.dirname of a normalized absolute path
dirname(p) ==
    LET segs == Normalize(Segments(p, ""), <<>>)
    IN  IF segs = <<>> THEN "/" ELSE Absolute(SubSeq(segs, 1, Len(segs) - 1))

\* path.resolve(path.dirname(<cloud-mcp.js>), ".."): the directory of level 3
BASE_DIR == resolve(SEASON_DIR \o "/Level-3/mcp", "..")
\* const SANDBOX_DIR of cloud-mcp.js
MCP_SANDBOX_DIR == join(BASE_DIR, "prodbot-activities")
CLOUD_DIR == join(MCP_SANDBOX_DIR, ".cloudsync")

\* the file system the server starts on: the password file of level 3 beside
\* the sandbox, one file in the sandbox, one file of the host
InitialDisk ==
    [files |-> (BASE_DIR \o "/password.txt" :> "EXCE55IV")
               @@ (MCP_SANDBOX_DIR \o "/notes.txt" :> "notes")
               @@ ("/etc/passwd" :> "root"),
     dirs |-> {"/", "/etc", SEASON_DIR, BASE_DIR, BASE_DIR \o "/mcp", MCP_SANDBOX_DIR}]

NoToolCall == [tool |-> "", arg |-> "", reads |-> {}, writes |-> {}, result |-> ""]

\* fs.existsSync(p)
existsSync(d, p) == p \in DOMAIN d.files \/ p \in d.dirs

\* ensureCloudDir(): fs.mkdirSync(CLOUD_DIR, { recursive: true })
ensureCloudDir(d) == [d EXCEPT !.dirs = @ \cup {MCP_SANDBOX_DIR, CLOUD_DIR}]

\* fs.readFileSync(p, "utf-8") in a tool on its way t: throws on a directory
readFileSync(t, p) ==
    IF t.result = "threw" THEN t
    ELSE IF p \in DOMAIN t.disk.files
         THEN [t EXCEPT !.content = t.disk.files[p], !.reads = @ \cup {p}]
    ELSE [t EXCEPT !.result = "threw"]

\* fs.writeFileSync(p, content): throws on a directory and where the
\* directory of p does not exist
writeFileSync(t, p) ==
    IF t.result = "threw" THEN t
    ELSE IF p \notin t.disk.dirs /\ dirname(p) \in t.disk.dirs
         THEN [t EXCEPT !.disk.files = (p :> t.content) @@ @, !.writes = @ \cup {p}]
    ELSE [t EXCEPT !.result = "threw"]

\* a tool on its way, after ensureCloudDir(): the disk, the files read and
\* written so far, the content in hand, and "threw" once an fs call has thrown
ToolStart(d) ==
    [disk |-> ensureCloudDir(d), reads |-> {}, writes |-> {}, content |-> "", result |-> ""]

Returns(t, r) == IF t.result = "threw" THEN t ELSE [t EXCEPT !.result = r]

\* tools.backup.run(filePath)
backup(d, filePath) ==
    LET t == ToolStart(d)
        resolved == resolve(BASE_DIR, filePath)
    IN  IF ~existsSync(t.disk, resolved) THEN Returns(t, "error")
        ELSE Returns(writeFileSync(readFileSync(t, resolved),
                                   join(CLOUD_DIR, basename(filePath))), "result")

\* tools.restore.run(filename)
restore(d, filename) ==
    LET t == ToolStart(d)
        cloudFile == join(CLOUD_DIR, filename)
        sourceFile == resolve(BASE_DIR, filename)
        dest == join(MCP_SANDBOX_DIR, filename)
    IN  IF ~existsSync(t.disk, cloudFile)
        THEN IF existsSync(t.disk, sourceFile)
             THEN Returns(writeFileSync(writeFileSync(readFileSync(t, sourceFile),
                                                      cloudFile), dest), "result")
             ELSE Returns(t, "error")
        ELSE Returns(writeFileSync(readFileSync(t, cloudFile), dest), "result")

\* the path arguments handed to the tools
PathArgs == {"notes.txt", "prodbot-activities/notes.txt", "password.txt", "/etc/passwd",
             "../notes.txt", "../../password.txt", ".."}

\* handleMcpRequest: toolDef.run(arg) for the tool backup
Backup(arg) ==
    /\ LET t == backup(disk, arg)
       IN  /\ disk' = t.disk
           /\ mcpCall' = [tool |-> "backup", arg |-> arg, reads |-> t.reads,
                          writes |-> t.writes, result |-> t.result]
    /\ UNCHANGED <<vvars, svars, fvars>>

\* handleMcpRequest: toolDef.run(arg) for the tool restore
Restore(arg) ==
    /\ LET t == restore(disk, arg)
       IN  /\ disk' = t.disk
           /\ mcpCall' = [tool |-> "restore", arg |-> arg, reads |-> t.reads,
                          writes |-> t.writes, result |-> t.result]
    /\ UNCHANGED <<vvars, svars, fvars>>

InitDisk ==
    /\ disk = InitialDisk
    /\ mcpCall = NoToolCall

(***************************************************************************)
(* Specifications                                                          *)
(***************************************************************************)
ValidatorIdle ==
    /\ vCmd = ""
    /\ vLevel = 1
    /\ vCtx = EmptyContext
    /\ vResult = NotValidated
    /\ lastIndex = ZeroIndex
    /\ vFirst = NoCall
    /\ memory = NoMemory

\* validateCommand on its own, over every candidate command, level and context
InitValidate == InitValidator /\ InitShell /\ InitFacade /\ InitDisk

NextValidate == Validate

SpecValidate == InitValidate /\ [][NextValidate]_vars

\* validateCommand on one command at a level and then at a higher level
InitMonotone == InitEmptyContext /\ InitShell /\ InitFacade /\ InitDisk

NextMonotone ==
    \/ Validate
    \/ \E m \in Levels : ValidateAbove(m)

SpecMonotone == InitMonotone /\ [][NextMonotone]_vars

\* validateCommand called repeatedly on the one module
InitRevalidate == InitRevalidator /\ InitShell /\ InitFacade /\ InitDisk

NextRevalidate ==
    \/ Call
    \/ \E c \in RevalCmds : \E l \in Levels : \E m \in Contexts : NextArguments(c, l, m)

SpecRevalidate == InitRevalidate /\ [][NextRevalidate]_vars

\* one PersistentShell driven by an arbitrary client
Init == ValidatorIdle /\ InitShell /\ InitFacade /\ InitDisk

Next ==
    \/ \E c \in ShellCmds : ExecuteCommand(c)
    \/ Destroy
    \/ \E p \in Live : KillOutOfBand(p)
    \/ \E p \in Live : ProcStep(p)
    \/ \E p \in Live : \E k \in 1 .. Len(procs[p].out) : DeliverStdout(p, k)
    \/ \E p \in Live : \E k \in 1 .. Len(procs[p].err) : DeliverStderr(p, k)
    \/ \E p \in Live : DeliverExit(p)

Spec == Init /\ [][Next]_vars

\* bash keeps running and the event loop keeps delivering events
Fairness ==
    /\ \A p \in 1 .. MaxProcs : WF_vars(p \in Live /\ ProcStep(p))
    /\ \A p \in 1 .. MaxProcs :
          WF_vars(p \in Live /\ \E k \in 1 .. Len(procs[p].out) : DeliverStdout(p, k))
    /\ \A p \in 1 .. MaxProcs :
          WF_vars(p \in Live /\ \E k \in 1 .. Len(procs[p].err) : DeliverStderr(p, k))
    /\ \A p \in 1 .. MaxProcs : WF_vars(p \in Live /\ DeliverExit(p))

FairSpec == Spec /\ Fairness

\* one PersistentShell driven by a client that awaits each result and, as
\* prodbot does, makes no call on a session after its destroy()
NextSequential ==
    \/ \E c \in StateCmds : ExecuteNext(c)
    \/ \E p \in Live : KillOutOfBand(p)
    \/ \E p \in Live : ProcStep(p)
    \/ \E p \in Live : \E k \in 1 .. Len(procs[p].out) : DeliverStdout(p, k)
    \/ \E p \in Live : \E k \in 1 .. Len(procs[p].err) : DeliverStderr(p, k)
    \/ \E p \in Live : DeliverExit(p)

SpecSequential == Init /\ [][NextSequential]_vars

\* one PersistentShell whose stdout arrives in chunks of any size
NextChunks ==
    \/ \E c \in ChunkCmds : ExecuteNext(c)
    \/ \E p \in Live : ProcStep(p)
    \/ \E p \in Live : \E k \in 1 .. Len(procs[p].out) : DeliverStdout(p, k)
    \/ \E p \in Live : \E n \in 1 .. PartLen(p) : DeliverStdoutPart(p, n)
    \/ \E p \in Live : \E k \in 1 .. Len(procs[p].err) : DeliverStderr(p, k)

SpecChunks == Init /\ [][NextChunks]_vars

\* one PersistentShell on a machine where starting bash can fail
NextSpawn ==
    \/ \E c \in ShellCmds : ExecuteCommand(c)
    \/ \E c \in ShellCmds : \E how \in SpawnOutcomes : ExecuteCommandSpawnFails(c, how)
    \/ \E p \in Live : SpawnError(p)
    \/ \E p \in Live : KillOutOfBand(p)
    \/ \E p \in Live : ProcStep(p)
    \/ \E p \in Live : \E k \in 1 .. Len(procs[p].out) : DeliverStdout(p, k)
    \/ \E p \in Live : \E k \in 1 .. Len(procs[p].err) : DeliverStderr(p, k)
    \/ \E p \in Live : DeliverExit(p)

SpecSpawn == Init /\ [][NextSpawn]_vars

\* the Cloud Backup tools called with one path after another
NextMcp ==
    \/ \E arg \in PathArgs : Backup(arg)
    \/ \E arg \in PathArgs : Restore(arg)

SpecMcp == Init /\ [][NextMcp]_vars

\* the overrides of system memory over a run of skills and commands
NextPolicy ==
    \/ \E file \in SandboxFiles : RunEnvSetup(file)
    \/ \E elevated \in BOOLEAN : RunOnboarding(elevated)
    \/ \E ttl \in 0 .. MaxTtl : SetOverride("workspace", ttl)
    \/ \E key \in DOMAIN memory : ClearOverride(key)
    \/ \E c \in PolicyCmds : StartCommand(c)
    \/ CompleteCommand

InitPolicy == InitMemory /\ InitShell /\ InitFacade /\ InitDisk

SpecPolicy == InitPolicy /\ [][NextPolicy]_vars

\* the program: the prompt loop over the shell
InitProgram == ValidatorIdle /\ InitShell /\ InitFacade /\ InitDisk

NextProgram ==
    \/ \E line \in Lines : ReadLine(line)
    \/ HandleExit
    \/ HandleLevel
    \/ HandleTask
    \/ LoopEnd
    \/ \E c \in FacadeCmds : LoopValidate(c)
    \/ \E a \in Answers : ConfirmNo(a)
    \/ \E a \in Answers : ConfirmYes(a)
    \/ AwaitResult
    \/ \E p \in Live : ProcStep(p)
    \/ \E p \in Live : \E k \in 1 .. Len(procs[p].out) : DeliverStdout(p, k)
    \/ \E p \in Live : \E k \in 1 .. Len(procs[p].err) : DeliverStderr(p, k)
    \/ \E p \in Live : DeliverExit(p)

SpecProgram == InitProgram /\ [][NextProgram]_vars

\* the program given commands that print the flags
NextFlags ==
    \/ \E line \in Lines : ReadLine(line)
    \/ HandleExit
    \/ HandleLevel
    \/ HandleTask
    \/ LoopEnd
    \/ \E c \in FlagCmds : LoopValidate(c)
    \/ \E a \in Answers : ConfirmNo(a)
    \/ \E a \in Answers : ConfirmYes(a)
    \/ AwaitResult
    \/ \E p \in Live : ProcStep(p)
    \/ \E p \in Live : \E k \in 1 .. Len(procs[p].out) : DeliverStdout(p, k)
    \/ \E p \in Live : \E k \in 1 .. Len(procs[p].err) : DeliverStderr(p, k)
    \/ \E p \in Live : DeliverExit(p)

SpecFlags == InitProgram /\ [][NextFlags]_vars

(***************************************************************************)
(* Properties                                                              *)
(***************************************************************************)
Resolved(c) == c.status = "resolved"
Last(q) == q[Len(q)]

\* call c succeeded and its output starts with the line(s) w
Printed(c, w) == Resolved(c) /\ c.result.success /\ StartsWith(c.result.output, w)

\* C1: executeCommand of a command that validateCommand rejects (at the
\* session's level and memory context) writes nothing to stdin, spawns no
\* process, attaches no listener, and resolves with success = false and the
\* validator's reason unchanged.
C1_RejectedStep ==
    (/\ Len(calls') = Len(calls) + 1
     /\ ~validateCommand(Last(calls').cmd, shell.sandboxDir, shell.level, GetMemoryContext).valid)
    => /\ procs' = procs
       /\ shell' = shell
       /\ SubSeq(calls', 1, Len(calls)) = calls
       /\ ~Last(calls').onStdout
       /\ ~Last(calls').onStderr
       /\ Resolved(Last(calls'))
       /\ Last(calls').result =
             [success |-> FALSE,
              error |-> validateCommand(Last(calls').cmd, shell.sandboxDir, shell.level,
                                        GetMemoryContext).reason]

C1_RejectedNeverRuns == [][C1_RejectedStep]_vars

\* a rejected command met a shell whose process handle was null, and nothing was spawned
C1_Witness ==
    /\ shell.shell = 0
    /\ Len(procs) = 1
    /\ \E i \in DOMAIN calls :
          /\ calls[i].cmd = "sudo ls"
          /\ calls[i].result = [success |-> FALSE, error |-> ReasonDenied]

\* C2: one executeCommand call is serviced at a time: a second call issued
\* while the first awaits its marker is not written to stdin before the first
\* has resolved, and each result holds only its own command's output.
C2_OneAtATime ==
    /\ Cardinality({i \in DOMAIN calls : calls[i].status = "pending" /\ calls[i].onStdout}) <= 1
    /\ \A i \in DOMAIN calls :
          (Resolved(calls[i]) /\ calls[i].result.success)
          => ~Includes(calls[i].result.output, "__PRODBOT_")

\* C3: every executeCommand call eventually resolves, also when its command
\* ends the shell process or the process dies while the call is outstanding.
C3_EveryCallResolves ==
    \A i \in 1 .. MaxCalls :
        (Len(calls) >= i) ~> (Len(calls) >= i /\ Resolved(calls[i]))

\* the number of earlier calls of "cd sub" that the process of call j served
CdsBefore(j) ==
    Cardinality({i \in 1 .. (j - 1) : calls[i].pid = calls[j].pid /\ calls[i].cmd = "cd sub"})

RECURSIVE Subs(_)
Subs(n) == IF n = 0 THEN "" ELSE "/sub" \o Subs(n - 1)

\* C4: shell state persists across sequential calls while the process stays
\* alive: once "X=1" has completed in a process that is still alive, a later
\* "echo $X" returns 1, and "pwd" returns the directory that the earlier
\* "cd sub" calls led to.
C4_StatePersists ==
    \A i \in DOMAIN calls : \A j \in DOMAIN calls :
        (/\ i < j
         /\ calls[i].pid # 0
         /\ Resolved(calls[i])
         /\ procs[calls[i].pid].state = "alive"
         /\ Resolved(calls[j]))
        => /\ (calls[i].cmd = "X=1" /\ calls[j].cmd = "echo $X")
                 => Printed(calls[j], "1\n")
           /\ (calls[i].cmd = "cd sub" /\ calls[j].cmd = "pwd")
                 => Printed(calls[j], shell.sandboxDir \o Subs(CdsBefore(j)) \o "\n")

C4_Witness ==
    /\ Len(calls) >= 2
    /\ calls[1].cmd = "X=1"
    /\ calls[2].cmd = "echo $X"
    /\ calls[2].pid = calls[1].pid
    /\ Printed(calls[2], "1\n")

\* C5: after the shell process was killed from outside while no command was
\* outstanding, the next executeCommand call spawns a new process: a call
\* issued with nothing outstanding is never handed to a process already dead.
C5_RespawnAfterKill ==
    \A i \in DOMAIN calls :
        (calls[i].pid # 0 /\ ~calls[i].concurrent) => ~calls[i].toDead

\* C6: the program starts at level 1 in level 1's sandbox; at all times the
\* session's sandboxDir is sandboxDir(currentLevel); a switch kills the old
\* process and creates a new PersistentShell with a fresh process in the new
\* sandbox, so "echo $X" shows a variable only if it was set in the same process.
C6_Rooted ==
    /\ SANDBOX_DIR = sandboxDir(currentLevel)
    /\ shell.sandboxDir = sandboxDir(currentLevel)
    /\ shell.shell # 0 => procs[shell.shell].owner = shell.id
    /\ \A j \in DOMAIN calls :
          (/\ calls[j].cmd = "echo $X"
           /\ Resolved(calls[j])
           /\ ~\E i \in 1 .. (j - 1) : calls[i].pid = calls[j].pid /\ calls[i].cmd = "eval X=1")
          => Printed(calls[j], "\n")

C6_SwitchStep ==
    (currentLevel' # currentLevel)
    => /\ shell.shell # 0 => procs'[shell.shell].state = "dead"
       /\ shell'.id # shell.id
       /\ shell'.shell = Len(procs) + 1
       /\ Len(procs') = Len(procs) + 1
       /\ procs'[shell'.shell] = NewProc(shell'.id, sandboxDir(currentLevel'))

C6_SessionFollowsLevel ==
    /\ currentLevel = 1 /\ shell.sandboxDir = sandboxDir(1)
    /\ []C6_Rooted
    /\ [][C6_SwitchStep]_vars

\* X was set at one level, and after two switches "echo $X" printed an empty line
C6_Witness ==
    /\ shell.id = 3
    /\ Len(calls) = 2
    /\ calls[1].cmd = "eval X=1" /\ calls[1].pid = 1
    /\ calls[2].cmd = "echo $X" /\ calls[2].pid = 3
    /\ Printed(calls[2], "\n")

ExplicitSwitch == pc = "handle" /\ input.kind = "level"

\* C7 as stated: currentLevel, and with it the session, changes only in
\* response to an explicit level-switch request.
C7_OnlyExplicitSwitch ==
    [][(currentLevel' # currentLevel \/ shell'.id # shell.id) => ExplicitSwitch]_vars

\* C7 as amended: currentLevel, and with it the session, changes only in
\* response to an explicit level-switch request, or when the output of a
\* successfully executed command contains the current level's flag, and then
\* to the next level.
C7_SwitchOrFlagStep ==
    (currentLevel' # currentLevel \/ shell'.id # shell.id)
    => \/ ExplicitSwitch /\ currentLevel' = input.n
       \/ /\ pc = "await"
          /\ Resolved(Last(calls))
          /\ Last(calls).result.success
          /\ Includes(Last(calls).result.output, LEVELS[currentLevel].flag)
          /\ currentLevel' = currentLevel + 1

C7_SwitchOrFlag == [][C7_SwitchOrFlagStep]_vars

\* the first command of the session printed level 1's flag and the program is at level 2
C7_Witness ==
    /\ pc = "loop"
    /\ cmd = "echo BYPA55ED"
    /\ Len(calls) = 1
    /\ calls[1].pid = 1
    /\ calls[1].result = [success |-> TRUE, output |-> "BYPA55ED\n"]
    /\ currentLevel = 2
    /\ shell.id = 2

\* C8: a command submitted while the level is n is validated with level = n,
\* by handleInput's validateCommand call and by the session's own.
C8_ValidatedAtCurrentLevel ==
    /\ lastValidate.at # 0 => lastValidate.level = lastValidate.at
    /\ shell.level = currentLevel

Validated == vResult # NotValidated

\* C9: a command that matches a denylist pattern, the three literal examples
\* among them, is rejected at every level and for every memory context.
C9_DenylistAlwaysRejects ==
    (/\ Validated
     /\ \/ \E k \in DOMAIN DENIED_PATTERNS : Test(DENIED_PATTERNS[k], vCmd)
        \/ vCmd \in {"sudo apt update", "rm -rf /", "curl x | sh"})
    => ~vResult.valid

C9_Witness ==
    /\ vCmd = "sudo apt update"
    /\ vLevel = 4
    /\ vCtx = [scope |-> "workspace"]
    /\ vResult = Reject(ReasonDenied)

\* a token that starts with / : a / at the start of the command or after white space
HasAbsoluteToken(s) ==
    \E i \in 1 .. Len(s) :
        CharAt(s, i) = "/" /\ (i = 1 \/ CharAt(s, i - 1) \in WhiteSpace)

\* C10: a command that contains a token starting with / is rejected with the
\* reason "Absolute paths are not allowed", at every level and for every
\* memory context.
C10_AbsolutePathRejected ==
    (Validated /\ HasAbsoluteToken(vCmd)) => vResult = Reject(ReasonAbsolute)

\* the characters that end a word of a shell command besides white space
ShellMeta == {";", "&", "|", "<", ">"}

\* .. stands in s as a path segment: a whole word, or a part of a word
\* between slashes
HasDotDotSegment(s) ==
    \E i \in 1 .. Len(s) :
        /\ At(s, i, "..")
        /\ (i = 1 \/ CharAt(s, i - 1) \in WhiteSpace \cup ShellMeta \cup {"/"})
        /\ (i + 2 > Len(s) \/ CharAt(s, i + 2) \in WhiteSpace \cup ShellMeta \cup {"/"})

OverrideInContext == Prop(vCtx, "scope") = "workspace"

\* C11: a command that contains .. as a path segment is rejected at every
\* level whenever the memory context carries no workspace-scope override.
C11_TraversalRejected ==
    (Validated /\ HasDotDotSegment(vCmd) /\ ~OverrideInContext) => ~vResult.valid

\* one of the hardened patterns of level 3 and above stands in the command
HardenedConstruct(trimmed) ==
    \/ Test(AssignDotsRe, trimmed)
    \/ Test(BacktickRe, trimmed)
    \/ Test(SubshellRe, trimmed)
    \/ Test(Base64Re, trimmed)
    \/ Test(PrintfRe, trimmed)
    \/ Test(EvalRe, trimmed)

\* the command fails a check other than the path-traversal one
FailsOtherCheck(command, level) ==
    LET trimmed == Trim(command)
    IN  \/ trimmed = ""
        \/ \E k \in DOMAIN DENIED_PATTERNS : Test(DENIED_PATTERNS[k], trimmed)
        \/ Test(TildeRe, trimmed)
        \/ Test(BareCdRe, trimmed)
        \/ Test(AbsPathRe, trimmed)
        \/ level >= 3 /\ HardenedConstruct(trimmed)

\* C12 as stated: with scope = "workspace" in the memory context, a command
\* with .. as a path segment that fails no other check is accepted, at every level.
C12_OverrideAcceptsAnyLevel ==
    (/\ Validated
     /\ OverrideInContext
     /\ HasDotDotSegment(vCmd)
     /\ ~FailsOtherCheck(vCmd, vLevel))
    => vResult = Accept

\* C12 as amended: with scope = "workspace" in the memory context, a command
\* with .. as a path segment that fails no other check is accepted, at every
\* level from 4 on.
C12_OverrideAcceptsFromLevel4 ==
    (/\ Validated
     /\ OverrideInContext
     /\ vLevel >= 4
     /\ HasDotDotSegment(vCmd)
     /\ ~FailsOtherCheck(vCmd, vLevel))
    => vResult = Accept

C12_Witness ==
    /\ vCmd = "../"
    /\ vLevel = 4
    /\ OverrideInContext
    /\ vResult = Accept

\* C13: at every level from 3 on and for every memory context, a command
\* with an assignment embedding .., a backquote, $(, a base64 decode, printf
\* with a hex or octal escape, or eval is rejected.
C13_HardenedRejected ==
    (Validated /\ vLevel >= 3 /\ HardenedConstruct(Trim(vCmd))) => ~vResult.valid

\* C16: a command that is empty or all white space is rejected with the
\* reason "Empty command", at every level and for every memory context.
C16_EmptyRejected ==
    (Validated /\ \A i \in 1 .. Len(vCmd) : CharAt(vCmd, i) \in WhiteSpace)
    => vResult = Reject(ReasonEmpty)

C16_Witness ==
    /\ vCmd = " \t"
    /\ vLevel = 4
    /\ OverrideInContext
    /\ vResult = Reject(ReasonEmpty)

\* the text s[j..k] is a variable name that starts a word
IsAssignedName(s, j, k) ==
    /\ j <= k
    /\ (j = 1 \/ CharAt(s, j - 1) \in WhiteSpace \cup ShellMeta)
    /\ CharAt(s, j) \notin OctalDigits \cup {"8", "9"}
    /\ \A n \in j .. k : CharAt(s, n) \in WordChars

\* ~ stands in s where the shell expands it: at the start of a word, as the
\* target of a redirection, or as the right-hand side of an assignment
TildeExpanded(s) ==
    \E i \in 1 .. Len(s) :
        /\ CharAt(s, i) = "~"
        /\ \/ i = 1
           \/ CharAt(s, i - 1) \in WhiteSpace \cup ShellMeta
           \/ CharAt(s, i - 1) = "=" /\ \E j \in 1 .. (i - 2) : IsAssignedName(s, j, i - 2)

\* C17: a command with ~ in a position where the shell expands it is
\* rejected at every level.
C17_HomeRejected ==
    (Validated /\ TildeExpanded(vCmd)) => ~vResult.valid

RECURSIVE SkipSpace(_, _)
SkipSpace(s, i) ==
    IF i <= Len(s) /\ CharAt(s, i) \in WhiteSpace THEN SkipSpace(s, i + 1) ELSE i

RECURSIVE SkipSpaceBack(_, _)
SkipSpaceBack(s, i) ==
    IF i >= 1 /\ CharAt(s, i) \in WhiteSpace THEN SkipSpaceBack(s, i - 1) ELSE i

\* cd is invoked in s with no argument: the word cd starts a simple
\* command and the command ends right after it
CdWithoutArgument(s) ==
    \E i \in 1 .. Len(s) :
        /\ At(s, i, "cd")
        /\ LET b == SkipSpaceBack(s, i - 1)
           IN  b = 0 \/ CharAt(s, b) \in {";", "&", "|"}
        /\ LET e == SkipSpace(s, i + 2)
           IN  e > Len(s) \/ CharAt(s, e) \in {";", "&", "|"}

\* C18: a command in which cd is invoked with no argument, alone or as a
\* part of a compound command, is rejected at every level.
C18_BareCdRejected ==
    (Validated /\ CdWithoutArgument(vCmd)) => ~vResult.valid

Unconditional == {ReasonDenied, ReasonHome, ReasonBareCd, ReasonAbsolute}

\* what the call returns when the memory context carries nothing
WithoutOverride == validateCommand(vCmd, "prodbot-activities", vLevel, EmptyContext)

\* C14: a command that the denylist, home-directory, bare-cd or
\* absolute-path check rejects without the workspace override is rejected
\* with the same reason with the override active, at every level.
C14_OverrideKeepsVerdict ==
    (/\ Validated
     /\ OverrideInContext
     /\ ~WithoutOverride.valid
     /\ WithoutOverride.reason \in Unconditional)
    => vResult = WithoutOverride

C14_Witness ==
    /\ vCmd = "/ls"
    /\ vLevel = 4
    /\ OverrideInContext
    /\ vResult = Reject(ReasonAbsolute)

\* the checks in their order, each with its reason and whether the call's
\* command violates it at the call's level and memory context
ChecksInOrder ==
    LET trimmed == Trim(vCmd)
        relaxed == vLevel >= 4 /\ OverrideInContext
    IN  << [reasons |-> {ReasonEmpty}, violated |-> trimmed = ""],
           [reasons |-> {ReasonDenied},
            violated |-> \E k \in DOMAIN DENIED_PATTERNS : Test(DENIED_PATTERNS[k], trimmed)],
           [reasons |-> {ReasonHome}, violated |-> Test(TildeRe, trimmed)],
           [reasons |-> {ReasonBareCd}, violated |-> Test(BareCdRe, trimmed)],
           [reasons |-> {ReasonAbsolute}, violated |-> Test(AbsPathRe, trimmed)],
           [reasons |-> {ReasonTraversal}, violated |-> ~relaxed /\ Test(TraversalRe, trimmed)],
           [reasons |-> {ReasonAssign, ReasonBacktick, ReasonSubshell, ReasonBase64,
                         ReasonPrintf, ReasonEval},
            violated |-> vLevel >= 3 /\ ~relaxed /\ HardenedConstruct(trimmed)] >>

\* C15: the checks apply in the order empty, denylist, home directory,
\* bare cd, absolute path, path traversal, hardened checks: the reason
\* returned is that of the earliest check the command violates, and a
\* command that violates none is accepted.
C15_EarliestCheckWins ==
    Validated =>
        LET checks == ChecksInOrder
        IN  /\ (\A k \in DOMAIN checks : ~checks[k].violated) => vResult = Accept
            /\ \A k \in DOMAIN checks :
                  (/\ checks[k].violated
                   /\ \A j \in 1 .. (k - 1) : ~checks[j].violated)
                  => ~vResult.valid /\ vResult.reason \in checks[k].reasons

\* "/.." violates the absolute-path and the path-traversal check
C15_Witness ==
    /\ vCmd = "/.."
    /\ vLevel = 3
    /\ ~OverrideInContext
    /\ ChecksInOrder[5].violated /\ ChecksInOrder[6].violated
    /\ vResult = Reject(ReasonAbsolute)

\* C19: validateCommand is deterministic and stateless: a call returns what
\* its arguments determine, the same as the first call with these arguments
\* returned whatever calls came in between, and it changes neither its
\* arguments nor the RegExp objects of the module.
C19_SameResult ==
    /\ lastIndex = ZeroIndex
    /\ Validated => vResult = validateCommand(vCmd, "prodbot-activities", vLevel, vCtx)
    /\ (Validated /\ SameAsFirst) => vResult = vFirst.result

C19_CallStep ==
    (vResult = NotValidated /\ vResult' # NotValidated)
    => /\ vCmd' = vCmd
       /\ vLevel' = vLevel
       /\ vCtx' = vCtx
       /\ lastIndex' = lastIndex

C19_Deterministic == []C19_SameResult /\ [][C19_CallStep]_vars

\* the first call was repeated after a call with other arguments
C19_Witness ==
    /\ Validated
    /\ SameAsFirst
    /\ vFirst.between
    /\ vCmd = "sudo ls"
    /\ vResult = Reject(ReasonDenied)

\* C20: "echo hello" as the first call on a freshly constructed
\* PersistentShell, with no other call made before it resolves, resolves with
\* success = true and output "hello\n", nothing of the marker in it.
C20_EchoRoundTrip ==
    (/\ Len(calls) >= 1
     /\ calls[1].cmd = "echo hello"
     /\ calls[1].pid = 1
     /\ Resolved(calls[1])
     /\ Len(calls) >= 2 => ~calls[2].concurrent)
    => calls[1].result = [success |-> TRUE, output |-> "hello\n"]

C20_Witness ==
    /\ Len(calls) = 1
    /\ calls[1].cmd = "echo hello"
    /\ calls[1].pid = 1
    /\ calls[1].result = [success |-> TRUE, output |-> "hello\n"]

\* call i is outstanding on a process that destroy() has killed: the handle
\* this.shell was set to null before the process's 'exit' event was delivered
DestroyedUnder(i) ==
    /\ calls[i].status = "pending"
    /\ calls[i].pid # 0
    /\ procs[calls[i].pid].state = "dead"
    /\ ~procs[calls[i].pid].exitSeen
    /\ shell.shell = 0

\* C21: when destroy() is called while an executeCommand call is outstanding,
\* the call is abandoned gracefully: its promise eventually settles and its
\* listeners are taken off the streams.
C21_DestroyAbandons ==
    \A i \in 1 .. MaxCalls :
        (Len(calls) >= i /\ DestroyedUnder(i))
        ~> (/\ Len(calls) >= i
            /\ Resolved(calls[i])
            /\ ~calls[i].onStdout
            /\ ~calls[i].onStderr)

\* the spawn of call i failed
SpawnFailed(i) ==
    \/ calls[i].status = "threw"
    \/ calls[i].pid # 0 /\ procs[calls[i].pid].state = "failed"

\* C22: when the shell process cannot be spawned, executeCommand does not
\* throw and the host does not crash; once the failure has been reported to
\* the program the call has resolved with success = false and an error text;
\* and a later executeCommand call spawns again.
C22_SpawnFailureReported ==
    \A i \in DOMAIN calls :
        SpawnFailed(i)
        => /\ ~crashed
           /\ calls[i].status # "threw"
           /\ (calls[i].pid # 0 /\ procs[calls[i].pid].exitSeen)
              => (Resolved(calls[i]) /\ ~calls[i].result.success /\ calls[i].result.error # "")
           /\ \A j \in DOMAIN calls :
                 (j > i /\ calls[j].pid # 0) => calls[j].pid > calls[i].pid

\* the step of handleInput that serves the line "level n"
LevelRequest(n) ==
    /\ pc = "handle"
    /\ input = [kind |-> "level", n |-> n]
    /\ pc' = "prompt"

\* C23: a switch request to a level that does not exist is reported as an
\* error and leaves currentLevel, SANDBOX_DIR and the session (the same
\* object, the same process, the same shell state) as they were.
C23_UnknownLevelStep ==
    \A n \in 0 .. (Len(LEVELS) + 1) :
        (LevelRequest(n) /\ n \notin DOMAIN LEVELS)
        => /\ console' = SaidNoLevel
           /\ UNCHANGED <<currentLevel, SANDBOX_DIR, shell, procs, calls>>

C23_UnknownLevelRefused == [][C23_UnknownLevelStep]_vars

\* a request for a level that does not exist was refused while the session's
\* shell held the variable a command had set
C23_Witness ==
    /\ pc = "prompt"
    /\ console = SaidNoLevel
    /\ shell.shell # 0
    /\ procs[shell.shell].state = "alive"
    /\ procs[shell.shell].X = "1"

\* C24: a switch request to the level that is already current is a no-op
\* reported as already active: the session is neither destroyed nor
\* recreated and its shell state is kept.
C24_SameLevelStep ==
    \A n \in DOMAIN LEVELS :
        (LevelRequest(n) /\ n = currentLevel)
        => /\ console' = SaidAlready
           /\ UNCHANGED <<currentLevel, SANDBOX_DIR, shell, procs, calls>>

C24_SameLevelNoOp == [][C24_SameLevelStep]_vars

\* at level 2 a request for level 2 was answered "already" while the
\* session's shell held the variable a command had set
C24_Witness ==
    /\ pc = "prompt"
    /\ console = SaidAlready
    /\ currentLevel = 2
    /\ shell.shell # 0
    /\ procs[shell.shell].state = "alive"
    /\ procs[shell.shell].X = "1"

\* the step in which a command starts (its validation) and the step in which
\* it completes (its consumption)
CommandStarts == Idle /\ ~Idle'
CommandCompletes == ~Idle /\ Idle'

\* command c at level l is accepted under the workspace override and
\* rejected without it
DependsOnOverride(c, l) ==
    /\ PolicyValidation[c][l]["workspace"].valid
    /\ ~PolicyValidation[c][l]["undefined"].valid

\* an override written with N > 0 has N - seen commands left and is gone
\* before seen reaches N; what env-setup wrote does not outlive one command
C25_Remaining ==
    \A k \in DOMAIN memory :
        /\ memory[k].given > 0
           => (memory[k].seen < memory[k].given
               /\ memory[k].ttl = memory[k].given - memory[k].seen)
        /\ memory[k].by = "env-setup" => memory[k].seen = 0

C25_Step ==
    /\ CommandStarts
       => \* every override present is active in the validation, no other is
          /\ DOMAIN vCtx' = DOMAIN memory
          /\ \A k \in DOMAIN memory : vCtx'[k] = memory[k].value
          \* without the override a command that depends on it is rejected
          /\ ("scope" \notin DOMAIN memory /\ DependsOnOverride(vCmd', vLevel))
             => ~vResult'.valid
    /\ CommandCompletes
       => \* accepted or rejected, the command counts
          \A k \in DOMAIN memory :
              memory[k].given > 0
              => IF memory[k].seen + 1 < memory[k].given
                 THEN /\ k \in DOMAIN memory'
                      /\ memory'[k].value = memory[k].value
                      /\ memory'[k].seen = memory[k].seen + 1
                 ELSE k \notin DOMAIN memory'

\* C25: an override written with a time-to-live N > 0 is active for exactly
\* the next N command executions, successful or not, and absent afterwards;
\* with N = 1, once one command is consumed a command that depended on the
\* override is rejected again.
C25_ExpiresAfterN == []C25_Remaining /\ [][C25_Step]_vars

\* a rejected command has used up the entry env-setup wrote for one command,
\* and the first of the two commands of a scope override written with N = 2
C25_Witness ==
    /\ Idle
    /\ vCmd = "sudo ls"
    /\ "lang" \in DOMAIN vCtx
    /\ "lang" \notin DOMAIN memory
    /\ "scope" \in DOMAIN memory
    /\ memory["scope"].given = 2
    /\ memory["scope"].seen = 1

C26_Step ==
    /\ CommandStarts
       => \A k \in DOMAIN memory :
              memory[k].given = 0 => (k \in DOMAIN vCtx' /\ vCtx'[k] = memory[k].value)
    /\ CommandCompletes
       => \A k \in DOMAIN memory :
              (memory[k].given = 0 \/ (k = "scope" /\ memory[k].by = "onboarding"))
              => /\ k \in DOMAIN memory'
                 /\ memory'[k].value = memory[k].value
                 /\ memory'[k].ttl = 0

\* C26: an override written with a time-to-live of 0, as onboarding writes
\* scope = "workspace", is never removed by the consumption of a command: it
\* is still active after any number of command executions.
C26_ZeroPersists == [][C26_Step]_vars

\* the scope override of onboarding after two commands, the second one a
\* command validated under it at level 4
C26_Witness ==
    /\ Idle
    /\ "scope" \in DOMAIN memory
    /\ memory["scope"].by = "onboarding"
    /\ memory["scope"].value = "workspace"
    /\ memory["scope"].seen >= 2
    /\ "elevated_paths" \notin DOMAIN memory
    /\ vLevel = 4
    /\ vCmd = "ls .."
    /\ Prop(vCtx, "scope") = "workspace"

Outstanding == {i \in DOMAIN calls : calls[i].status = "pending"}

\* the for loop moves from one element of result.commands to the next
C27_InOrderStep ==
    (pc \in {"loop", "confirm", "await"} /\ pc' # "prompt" /\ idx' # idx) => idx' = idx + 1

\* C27: handleInput takes the commands of a batch one after another in list
\* order: the validation of the next command starts only after the result of
\* the previous one has come back, and no two commands are ever outstanding
\* against the session.
C27_OneAfterAnother ==
    /\ [](/\ Cardinality(Outstanding) <= 1
          /\ pc \in {"loop", "confirm"} => Outstanding = {})
    /\ [][C27_InOrderStep]_vars

\* the second command of a batch is outstanding, the first call has returned
C27_Witness ==
    /\ pc = "await"
    /\ idx = 2
    /\ Len(calls) = 2
    /\ Resolved(calls[1])
    /\ calls[1].result.success
    /\ Outstanding = {2}

\* s has nothing but white space
Blank(s) == \A j \in 1 .. Len(s) : Sub(s, j, j) \in WhiteSpace

\* stdout holds the marker and before is what it holds ahead of its first occurrence
AheadOfMarker(before, stdout, marker) ==
    \E k \in 1 .. Len(stdout) :
        /\ At(stdout, k, marker)
        /\ \A j \in 1 .. (k - 1) : ~At(stdout, j, marker)
        /\ before = Sub(stdout, 1, k - 1)

C28_ResolveStep ==
    \A i \in DOMAIN calls :
        (calls[i].status = "pending" /\ calls'[i].status = "resolved")
        => /\ calls'[i].result.success
           /\ \E before \in {Sub(calls'[i].stdout, 1, k) : k \in 0 .. Len(calls'[i].stdout)} :
                 /\ AheadOfMarker(before, calls'[i].stdout, calls[i].marker)
                 /\ calls'[i].result.output =
                       IF Blank(calls[i].stderr) THEN before ELSE before \o calls[i].stderr

\* C28: a validated command whose marker arrives resolves with success =
\* true, whatever its exit status, and with output exactly the stdout data
\* received before the marker, followed by the accumulated stderr data if and
\* only if that stderr is not blank.
C28_ResultOnMarker == [][C28_ResolveStep]_vars

\* a command that failed resolved with success and its stderr text, and a
\* command whose stderr was a lone newline resolved with empty output
C28_Witness ==
    /\ Len(calls) = 2
    /\ calls[1].cmd = "nosuch"
    /\ calls[1].result = [success |-> TRUE, output |-> "bash: nosuch: command not found\n"]
    /\ calls[2].cmd = "echo >&2"
    /\ calls[2].stderr = "\n"
    /\ calls[2].result = [success |-> TRUE, output |-> ""]

\* the whole marker of call c is in the stdout data the call has received
MarkerReceived(c) == \E k \in 1 .. Len(c.stdout) : At(c.stdout, k, c.marker)

\* C29: the completion of a command is detected as soon as the whole marker
\* has been received, however the output stream is cut into chunks (a marker
\* cut across chunks included), and never before the marker has been
\* received in full.
C29_CompletionOnMarker ==
    \A i \in DOMAIN calls :
        calls[i].pid # 0 => (Resolved(calls[i]) <=> MarkerReceived(calls[i]))

\* a chunk has ended inside the marker: the call has the command's output and
\* the first half of the marker, and is still outstanding
C29_Witness ==
    /\ Len(calls) = 1
    /\ calls[1].cmd = "echo hello"
    /\ calls[1].stdout = "hello\n__PRODB"
    /\ calls[1].status = "pending"
    /\ procs[1].out = <<"OT_1_1__\n">>

\* the user's answer is y, in either case, white space around it aside
IsYes(a) == \E j \in 1 .. Len(a) :
                /\ Sub(a, j, j) \in {"y", "Y"}
                /\ Blank(Sub(a, 1, j - 1))
                /\ Blank(Sub(a, j + 1, Len(a)))

\* a step of the for loop of handleInput
LoopStep == pc \in {"loop", "confirm"} /\ pc' # "prompt" /\ (pc' # pc \/ idx' # idx)

C30_Step ==
    \* a command reaches shell.executeCommand only validated and confirmed
    /\ Len(calls') > Len(calls)
       => /\ pc = "confirm"
          /\ Last(calls').cmd = cmd
          /\ FacadeValidation[cmd].valid
          /\ IsYes(answer')
    \* a rejected command is skipped and the loop goes on
    /\ (LoopStep /\ pc = "loop" /\ ~FacadeValidation[cmd'].valid)
       => /\ UNCHANGED <<shell, procs, calls>>
          /\ pc' = "loop"
          /\ idx' = idx + 1
    \* a declined command is skipped and the loop goes on
    /\ (LoopStep /\ pc = "confirm" /\ ~IsYes(answer'))
       => /\ UNCHANGED <<shell, procs, calls>>
          /\ pc' = "loop"
          /\ idx' = idx + 1

\* C30: handleInput passes a command to shell.executeCommand only if the
\* command passed validateCommand and the user answered y; a command that was
\* rejected or declined is skipped without being executed, and the commands
\* after it in the batch are still processed.
C30_ValidatedAndConfirmed == [][C30_Step]_vars

\* the first command of a batch was skipped and the second one, confirmed
\* with " Y", is with the shell
C30_Witness ==
    /\ pc = "await"
    /\ idx = 2
    /\ answer = " Y"
    /\ Len(calls) = 1
    /\ calls[1].cmd = cmd
    /\ calls[1].pid # 0

\* the call the loop is waiting for has resolved with the flag of level l in
\* its output
FlagSeen(l) ==
    /\ pc = "await"
    /\ Resolved(Last(calls))
    /\ Last(calls).result.success
    /\ Includes(Last(calls).result.output, LEVELS[l].flag)

\* the session after the step is a new one, rooted in the sandbox of level l,
\* and the process of the session before the step has been killed
RecreatedFor(l) ==
    /\ shell'.id # shell.id
    /\ shell'.sandboxDir = sandboxDir(l)
    /\ SANDBOX_DIR' = sandboxDir(l)
    /\ shell'.shell \notin DOMAIN procs
    /\ procs'[shell'.shell] = NewProc(shell'.id, sandboxDir(l))
    /\ \A q \in DOMAIN procs : procs'[q].state = "dead"

\* the loop takes up the result of a command
C31_FlagStep ==
    (pc = "await" /\ pc' = "loop")
    => IF FlagSeen(currentLevel) /\ currentLevel < Len(LEVELS)
       THEN currentLevel' = currentLevel + 1 /\ RecreatedFor(currentLevel + 1)
       ELSE UNCHANGED <<currentLevel, SANDBOX_DIR, shell, procs>>

\* the loop validates or starts a command of the batch: with the sandbox of
\* the level it is at now, on the session of that level, in a process of
\* that session that was started in that sandbox
C31_BatchStep ==
    /\ (pc = "loop" /\ pc' # "prompt")
       => /\ lastValidate'.at = currentLevel
          /\ SANDBOX_DIR = sandboxDir(currentLevel)
    /\ (pc = "confirm" /\ pc' = "await" /\ Last(calls').pid # 0)
       => /\ shell.sandboxDir = sandboxDir(currentLevel)
          /\ procs'[Last(calls').pid].owner = shell.id
          /\ procs'[Last(calls').pid].cwd = sandboxDir(currentLevel)

\* C31: when the output of a successfully executed command contains the
\* current level's flag, the level advances by exactly one (1 to 2, 2 to 3)
\* and the session is recreated in the new sandbox; the last level does not
\* advance, and output with only another level's flag changes nothing; the
\* remaining commands of the batch are validated and executed against the
\* new level's session.
C31_FlagAdvances == [][C31_FlagStep /\ C31_BatchStep]_vars

\* the first command of a batch printed level 1's flag, and the second
\* command of the same batch has run in the session of level 2, in its sandbox
C31_Witness ==
    /\ pc = "await"
    /\ idx = 2
    /\ Len(calls) = 2
    /\ calls[1].pid = 1
    /\ Includes(calls[1].result.output, LEVELS[1].flag)
    /\ currentLevel = 2
    /\ shell.id = 2
    /\ calls[2].pid = 2
    /\ procs[2].owner = 2
    /\ Resolved(calls[2])
    /\ calls[2].cmd = "echo BYPA55ED"
    /\ calls[2].result = [success |-> TRUE, output |-> "BYPA55ED\n"]

\* the processes that are running
Running == {p \in DOMAIN procs : procs[p].state = "alive"}

\* C32: a PersistentShell never has more than one live shell process, and its
\* handle, when not null, refers to the most recently spawned process: the
\* 'exit' event of an earlier process never clears the handle of a process
\* spawned later, so a process that is running is the one the handle refers to.
C32_OneLiveProcess ==
    /\ Cardinality(Running) <= 1
    /\ shell.shell # 0 => shell.shell = Len(procs)
    /\ \A p \in Running : shell.shell = p

\* the process of call j served an earlier call of "X=1"
SetBefore(j) ==
    \E i \in 1 .. (j - 1) : calls[i].pid = calls[j].pid /\ calls[i].cmd = "X=1"

\* a step that spawns: the new process starts in the session's sandboxDir
\* with no variable set
C33_SpawnStep ==
    Len(procs') > Len(procs)
    => /\ Len(procs') = Len(procs) + 1
       /\ Last(procs').cwd = shell'.sandboxDir
       /\ Last(procs').X = ""
       /\ Last(procs').state = "alive"

\* what the commands of a process see: "pwd" prints the sandboxDir followed
\* only by the directory changes made in this very process, and "echo $X"
\* prints an empty line unless this very process has run "X=1"
C33_Fresh ==
    \A j \in DOMAIN calls :
        (Resolved(calls[j]) /\ calls[j].pid # 0)
        => /\ calls[j].cmd = "pwd"
                => Printed(calls[j], shell.sandboxDir \o Subs(CdsBefore(j)) \o "\n")
           /\ (calls[j].cmd = "echo $X" /\ ~SetBefore(j))
                => Printed(calls[j], "\n")

\* C33: every spawn of the shell, the first one and every respawn, starts the
\* process with its working directory set to the session's sandboxDir, and a
\* respawned process carries over no variable and no change of working
\* directory from the process it replaces.
C33_SpawnInSandbox == []C33_Fresh /\ [][C33_SpawnStep]_vars

\* the first process ran "cd sub" and died; "pwd" in the process respawned
\* for the next call printed the sandbox directory
C33_Witness ==
    /\ Len(calls) >= 2
    /\ calls[1].cmd = "cd sub"
    /\ calls[1].pid = 1
    /\ Resolved(calls[1])
    /\ procs[1].state = "dead"
    /\ calls[2].cmd = "pwd"
    /\ calls[2].pid = 2
    /\ calls[2].result = [success |-> TRUE, output |-> shell.sandboxDir \o "\n"]

\* what command c writes to the error stream
ErrOf(c) == Concat(BashRun(c, NewProc(0, "")).err)

\* C34: under sequential use the error-stream data a command produces is in
\* that command's result and in no other command's result, whatever the order
\* in which the chunks of stdout and stderr arrive: a call that resolved with
\* success has as its output the stdout data ahead of its marker followed by
\* what its own command wrote to stderr (nothing when that is blank).
C34_StderrInOwnResult ==
    \A j \in DOMAIN calls :
        (Resolved(calls[j]) /\ calls[j].pid # 0 /\ calls[j].result.success)
        => calls[j].result.output =
              BeforeMarker(calls[j].stdout, calls[j].marker)
              \o (IF Blank(ErrOf(calls[j].cmd)) THEN "" ELSE ErrOf(calls[j].cmd))

\* C35: validation strictness is monotone in the level when no override is
\* active: with an empty memory context, a command that validateCommand
\* rejects at level n is rejected at every level m >= n.
C35_MonotoneInLevel ==
    (/\ vFirst # NoCall
     /\ vFirst.cmd = vCmd
     /\ vFirst.ctx = EmptyContext /\ vCtx = EmptyContext
     /\ vFirst.level <= vLevel
     /\ ~vFirst.result.valid)
    => ~vResult.valid

\* "eval" was rejected at level 3 by the hardened checks and, validated again
\* at level 4, is rejected there too
C35_Witness ==
    /\ vCmd = "eval"
    /\ vCtx = EmptyContext
    /\ vFirst.cmd = "eval"
    /\ vFirst.level = 3
    /\ vFirst.result = Reject(ReasonEval)
    /\ vLevel = 4
    /\ vResult = Reject(ReasonEval)

\* path p is the sandbox directory or lies under it
InSandbox(p) == p = MCP_SANDBOX_DIR \/ StartsWith(p, MCP_SANDBOX_DIR \o "/")

\* C36: the Cloud Backup tools operate on the sandbox only: for every path
\* argument, backup and restore read files only from inside the level's
\* prodbot-activities directory and write only inside it.
C36_SandboxOnly ==
    \A p \in mcpCall.reads \cup mcpCall.writes : InSandbox(p)

====
